---- MODULE Spec2Model ----
(***************************************************************************)
(* Verification model of the thinkwrapper backend: the Paddle webhook      *)
(* endpoints (app/routes.py, app/auth.py), the webhook verifiers           *)
(* (app/payment_service.py, app/services.py), the Celery task wrappers     *)
(* (app/tasks.py) and the generation route.                                *)
(*                                                                         *)
(* Strings are TLA+ strings; Python's None is the string "None".           *)
(***************************************************************************)
EXTENDS Integers, Sequences, FiniteSets, TLC

VARIABLES
    env_secret,      \* os.environ['PADDLE_WEBHOOK_SECRET'] ("None" when unset)
    paddle_service,  \* payment_service._paddle_service (the module singleton)
    users,           \* the users table: id -> row
    request,         \* the HTTP request or direct call being handled last
    response,        \* its response
    calls,           \* the service calls the handler made, in order
    phase,           \* "idle", or "done" while the response is being returned
    task,            \* the Celery task followed by the model
    issues,          \* the issues table: the set of Issue rows
    search,          \* the last search_brave call: its arguments, the
                     \* environment it ran in and what it returned
    render,          \* the NewsletterRenderer call followed by the model:
                     \* its arguments and, once it has run, what it returned
    synthesis,       \* the POST to /api/admin/synthesize followed by the
                     \* model: its body, what the synthesizer and the mailer
                     \* will do, and once handled the calls made and the response
    call,            \* the direct call of a service function followed by the
                     \* model: the function, its input and environment, and
                     \* once it has run what it returned
    threads,         \* the threads of the server process: for each its
                     \* position in the function it runs and its locals
    accepted         \* history: the delivery (body, signature) that
                     \* /api/payment/webhook last answered 200, and whether
                     \* that answer was to a repeated delivery

webhook_vars ==
    <<env_secret, paddle_service, users, request, response, calls, phase, issues,
      accepted, search, render, synthesis, call, threads>>

None == "None"

\* Python truthiness of an optional string
Falsy(s) == s = None \/ s = ""

----------------------------------------------------------------------------
(* HMAC and the signature formats *)

\* hmac.new(key, msg, sha256).hexdigest(): an ideal MAC, distinct (key, msg)
\* pairs have distinct digests
HmacSha256Hex(key, msg) == "hmac<" \o key \o "|" \o msg \o ">"

\* The header the tests of the verifier build: ts=<t>;h1=<hex> where the hex
\* digest signs "<t>.<body>" (tests/test_auth.py)
SignedPayload(ts, body) == ts \o "." \o body
TsH1Header(ts, h1) == "ts=" \o ts \o ";h1=" \o h1

Secrets == {"whsec_A", "whsec_B"}
Timestamps == {"1700000000", "1700000100"}

----------------------------------------------------------------------------
(* JSON bodies *)

PaymentEventTypes ==
    {"transaction.completed", "transaction.updated", "subscription.created",
     "subscription.updated", "subscription.cancelled", "subscription.past_due"}

NoData == [kind |-> "absent", email |-> None, id |-> None, status |-> None]
NullData == [kind |-> "null", email |-> None, id |-> None, status |-> None]
EmptyDict == [kind |-> "dict", email |-> None, id |-> None, status |-> None]

\* data objects of subscription events: {id, status, customer: {email}}
SubscriptionData ==
    [kind : {"dict"}, email : {None, "a@x.io", "z@x.io"},
     id : {None, "sub_1", "sub_2"}, status : {None, "active", "past_due"}]

\* JSON objects posted to /api/payment/webhook
PaymentObjects ==
    [event_type : PaymentEventTypes \cup {None, "", "invoice.paid"},
     data : {NoData, NullData, EmptyDict, [EmptyDict EXCEPT !.id = "sub_2"]}]

\* JSON objects posted to /auth/paddle/webhook
AuthObjects ==
    [event_type : {"subscription.created", "subscription.updated"},
     data : SubscriptionData]
    \cup [event_type : {"subscription.canceled", "subscription.cancelled", "invoice.paid"},
          data : {d \in SubscriptionData : d.email = None /\ d.status = None}]
    \cup [event_type : {None, "subscription.created"}, data : {NoData, NullData}]

JsonObjects == PaymentObjects \cup AuthObjects

Field(name, v) == IF v = None THEN "" ELSE name \o ":" \o v \o ","

\* json.dumps of an object
Serialize(o) ==
    "{" \o Field("event_type", o.event_type)
        \o (CASE o.data.kind = "absent" -> ""
              [] o.data.kind = "null" -> "data:null"
              [] OTHER -> "data:{" \o Field("id", o.data.id)
                                   \o Field("status", o.data.status)
                                   \o Field("email", o.data.email) \o "}")
        \o "}"

\* bodies that are no JSON object: empty, not JSON, a JSON array, JSON null
NonObjectTexts == {"", "event_type=transaction.completed", "[]", "null"}

PaymentBodies == {Serialize(o) : o \in PaymentObjects} \cup NonObjectTexts
AuthBodies == {Serialize(o) : o \in AuthObjects} \cup NonObjectTexts

\* a single appended byte: the text changes, the JSON value does not
Tamper(body) == body \o " "

\* request.json followed by the handler's .get() calls. err is "badjson" when
\* get_json raises BadRequest, "notdict" when the JSON value has no .get
\* (AttributeError), "" when the body is a JSON object
ParseFailure(text) ==
    [err |-> IF text \in {"[]", "null", Tamper("[]"), Tamper("null")}
             THEN "notdict" ELSE "badjson",
     event_type |-> None, data |-> NoData]

\* the texts that are JSON objects, with their values (trailing whitespace
\* is insignificant)
JsonTexts ==
    {<<Serialize(o), o>> : o \in JsonObjects}
    \cup {<<Tamper(Serialize(o)), o>> : o \in JsonObjects}

ParseJson(text) ==
    LET m == {p \in JsonTexts : p[1] = text}
    IN  IF m = {} THEN ParseFailure(text)
        ELSE LET o == (CHOOSE p \in m : TRUE)[2]
             IN  [err |-> "", event_type |-> o.event_type, data |-> o.data]

----------------------------------------------------------------------------
(* Responses and call records *)

NoJson == [error |-> None, status |-> None, event_type |-> None,
           task_id |-> None, topic |-> None, success |-> None, text |-> None]

ErrorJson(msg) == [NoJson EXCEPT !.error = msg]

Call(fn, a, b, ret) == [fn |-> fn, a |-> a, b |-> b, ret |-> ret]

BoolStr(b) == IF b THEN "True" ELSE "False"

----------------------------------------------------------------------------
(* The webhook verifiers *)

\* PaddlePaymentService.verify_webhook_signature: False without a secret;
\* compare_digest raises TypeError on a None signature, caught -> False;
\* otherwise the header is compared with the hex HMAC of the payload
verify_webhook_signature(webhook_secret, payload, signature) ==
    IF Falsy(webhook_secret) THEN FALSE
    ELSE IF signature = None THEN FALSE
    ELSE HmacSha256Hex(webhook_secret, payload) = signature

\* services.verify_paddle_webhook: the placeholder body
verify_paddle_webhook(data, signature) == TRUE

\* PaddlePaymentService.__init__ reads the secret from the environment
\* (instance numbers the instances constructed in the process, 0 is None)
NoService == [created |-> FALSE, webhook_secret |-> None, instance |-> 0]
PaddlePaymentService ==
    [created |-> TRUE, webhook_secret |-> env_secret,
     instance |-> paddle_service.instance + 1]

\* get_paddle_service: construct on first use, then return the singleton
get_paddle_service == IF ~paddle_service.created THEN PaddlePaymentService ELSE paddle_service

\* process_webhook_event with the final else branch raising instead of
\* returning: the except clause reports status "error"
process_webhook_event_raising(event_type, event_data) ==
    IF event_type \in PaymentEventTypes
    THEN IF event_data.kind /= "dict" THEN "error" ELSE "success"
    ELSE "error"

\* PaddlePaymentService.process_webhook_event: the status of the dict it
\* returns. Every handler starts with data.get(...), which raises
\* AttributeError on None and on every other value that is not a dict; the
\* except clause turns that into status "error"
process_webhook_event(event_type, event_data) ==
    IF event_type \in PaymentEventTypes
    THEN IF event_data.kind /= "dict" THEN "error" ELSE "success"
    ELSE "unhandled"

----------------------------------------------------------------------------
(* POST /api/payment/webhook *)

\* routes.paddle_webhook from "Parse webhook data" on: the body is parsed
\* and the event processed; any exception becomes a 500
process_verified(svc, vcall, payload) ==
    LET webhook_data == ParseJson(payload)
        event_type == webhook_data.event_type
        \* webhook_data.get('data', {})
        event_data == IF webhook_data.data.kind = "absent" THEN EmptyDict
                      ELSE webhook_data.data
    IN
    IF webhook_data.err /= ""
    THEN [code |-> 500, json |-> ErrorJson("Webhook processing failed"),
          calls |-> <<vcall>>, service |-> svc]
    ELSE IF Falsy(event_type)
    THEN [code |-> 400, json |-> ErrorJson("Missing event_type"), calls |-> <<vcall>>,
          service |-> svc]
    ELSE [code |-> 200,
          json |-> [NoJson EXCEPT !.status = "received", !.event_type = event_type],
          calls |-> <<vcall, Call("process_webhook_event", event_type, event_data.kind,
                                  process_webhook_event(event_type, event_data))>>,
          service |-> svc]

\* paddle_webhook with the result of the verification ignored
paddle_webhook_unchecked(payload, header) ==
    LET signature == IF header = None THEN "" ELSE header
    IN
    IF Falsy(signature)
    THEN [code |-> 400, json |-> ErrorJson("Missing signature"), calls |-> <<>>,
          service |-> paddle_service]
    ELSE
    LET svc == get_paddle_service
        valid == verify_webhook_signature(svc.webhook_secret, payload, signature)
        vcall == Call("verify_webhook_signature", payload, signature, BoolStr(valid))
    IN  process_verified(svc, vcall, payload)

\* paddle_webhook with an idempotency check: a delivery already accepted is
\* acknowledged and not processed again
paddle_webhook_deduplicated(payload, header) ==
    LET signature == IF header = None THEN "" ELSE header
    IN
    IF Falsy(signature)
    THEN [code |-> 400, json |-> ErrorJson("Missing signature"), calls |-> <<>>,
          service |-> paddle_service]
    ELSE
    LET svc == get_paddle_service
        valid == verify_webhook_signature(svc.webhook_secret, payload, signature)
        vcall == Call("verify_webhook_signature", payload, signature, BoolStr(valid))
    IN
    IF ~valid
    THEN [code |-> 401, json |-> ErrorJson("Invalid signature"), calls |-> <<vcall>>,
          service |-> svc]
    ELSE IF accepted.body = payload /\ accepted.signature = header
    THEN [code |-> 200, json |-> [NoJson EXCEPT !.status = "received"],
          calls |-> <<vcall>>, service |-> svc]
    ELSE process_verified(svc, vcall, payload)

\* routes.paddle_webhook: the response, the calls made and the singleton after it
paddle_webhook(payload, header) ==
    LET signature == IF header = None THEN "" ELSE header   \* headers.get(.., '')
    IN
    IF Falsy(signature)
    THEN [code |-> 400, json |-> ErrorJson("Missing signature"), calls |-> <<>>,
          service |-> paddle_service]
    ELSE
    LET svc == get_paddle_service
        valid == verify_webhook_signature(svc.webhook_secret, payload, signature)
        vcall == Call("verify_webhook_signature", payload, signature, BoolStr(valid))
    IN
    IF ~valid
    THEN [code |-> 401, json |-> ErrorJson("Invalid signature"), calls |-> <<vcall>>,
          service |-> svc]
    ELSE process_verified(svc, vcall, payload)

----------------------------------------------------------------------------
(* POST /auth/paddle/webhook *)

UserIds == {1, 2}

\* User.query.filter_by(...).first(): the rows a query without ORDER BY may
\* return first; 0 stands for None (no row)
First(matching) == IF matching = {} THEN {0} ELSE matching

\* the query with its filter dropped
ByEmailUnfiltered(email) == First(UserIds)

ByEmail(email) == First({u \in UserIds : users[u].email = email})
BySubscription(id) == First({u \in UserIds : users[u].subscription_id = id})

\* auth.paddle_webhook_route: the response, the users table after it and the
\* verifier call. pick is the row .first() returned
paddle_webhook_route(raw_request_body, signature_header, pick) ==
    LET valid == verify_paddle_webhook(raw_request_body, signature_header)
        vcall == Call("verify_paddle_webhook", raw_request_body, signature_header,
                      BoolStr(valid))
        webhook_data == ParseJson(raw_request_body)
        event_type == webhook_data.event_type
        data == webhook_data.data
        Reply(code, json, table) ==
            [code |-> code, json |-> json, users |-> table, calls |-> <<vcall>>]
    IN
    IF ~valid THEN Reply(403, ErrorJson("Invalid Paddle signature"), users)
    \* request.json raises BadRequest; .get on a non-dict raises AttributeError
    ELSE IF webhook_data.err = "badjson" THEN Reply(400, ErrorJson("Bad Request"), users)
    ELSE IF webhook_data.err = "notdict"
    THEN Reply(500, ErrorJson("Internal Server Error"), users)
    ELSE IF Falsy(event_type) \/ data.kind /= "dict" \/ data = EmptyDict
    THEN Reply(400, ErrorJson("Missing event_type or data in webhook payload"), users)
    ELSE IF event_type \in {"subscription.created", "subscription.updated"}
    THEN IF Falsy(data.email) \/ Falsy(data.id) \/ Falsy(data.status)
         THEN Reply(400, ErrorJson("Webhook payload for subscription event missing fields"),
                    users)
         ELSE IF pick \in ByEmail(data.email) /\ pick /= 0
         THEN Reply(200, [NoJson EXCEPT !.status = "webhook processed"],
                    [users EXCEPT ![pick].subscription_id = data.id,
                                  ![pick].is_active = (data.status = "active")])
         ELSE Reply(200, [NoJson EXCEPT !.status = "webhook processed"], users)
    ELSE IF event_type = "subscription.canceled"
    THEN IF Falsy(data.id)
         THEN Reply(400, ErrorJson("Webhook payload for subscription.canceled missing id"),
                    users)
         ELSE IF pick \in BySubscription(data.id) /\ pick /= 0
         THEN Reply(200, [NoJson EXCEPT !.status = "webhook processed"],
                    [users EXCEPT ![pick].is_active = FALSE])
         ELSE Reply(200, [NoJson EXCEPT !.status = "webhook processed"], users)
    ELSE Reply(200, [NoJson EXCEPT !.status = "webhook processed"], users)

\* the rows .first() may return for this request
FirstRows(body) ==
    LET d == ParseJson(body) IN
    IF d.event_type \in {"subscription.created", "subscription.updated"}
    THEN ByEmail(d.data.email)
    ELSE IF d.event_type = "subscription.canceled" THEN BySubscription(d.data.id)
    ELSE {0}

----------------------------------------------------------------------------
(* Requests *)

\* bodies of the direct verifier calls
DirectBodies ==
    {Serialize([event_type |-> "transaction.completed", data |-> EmptyDict]),
     Serialize([event_type |-> "subscription.created", data |-> NoData]),
     "event_type=transaction.completed"}

\* The Paddle-Signature values a sender may put on a body: none, an empty one,
\* noise, the bare hex HMAC (tests/test_payment.py) and the ts/h1 form
\* (tests/test_auth.py), each signed with either secret, over the body or over
\* the body changed by one byte, with the signed timestamp equal to the
\* header's or not
SignaturesFor(body) ==
    {None, "", "invalid_signature_123"}
    \cup {HmacSha256Hex(k, b) : k \in Secrets, b \in {body, Tamper(body)}}
    \cup {TsH1Header(ts, HmacSha256Hex(k, SignedPayload(t2, b))) :
            k \in Secrets, ts \in {"1700000000"}, t2 \in Timestamps,
            b \in {body, Tamper(body)}}

NoRequest == [endpoint |-> "", body |-> "", signature |-> None]
NoResponse == [code |-> 0, json |-> NoJson]

WebhookInit ==
    /\ env_secret \in {None, "", "whsec_A"}
    /\ paddle_service = NoService
    /\ users = [u \in UserIds |->
                  IF u = 1
                  THEN [email |-> "a@x.io", subscription_id |-> None, is_active |-> TRUE]
                  ELSE [email |-> "b@x.io", subscription_id |-> "sub_2", is_active |-> TRUE]]
    /\ request = NoRequest
    /\ response = NoResponse
    /\ calls = <<>>
    /\ phase = "idle"

\* a POST to /api/payment/webhook, handled by routes.paddle_webhook
PaddleWebhook ==
    /\ phase = "idle"
    /\ \E body \in PaymentBodies : \E header \in SignaturesFor(body) :
            \E r \in {paddle_webhook(body, header)} :
            /\ phase' = "done"
            /\ request' = [endpoint |-> "/api/payment/webhook", body |-> body,
                           signature |-> header]
            /\ response' = [code |-> r.code, json |-> r.json]
            /\ calls' = r.calls
            /\ paddle_service' = r.service
            /\ accepted' = IF r.code = 200
                           THEN [body |-> body, signature |-> header,
                                 again |-> (accepted.body = body
                                            /\ accepted.signature = header)]
                           ELSE accepted
            /\ UNCHANGED <<env_secret, users, task, issues, search, render, synthesis, call, threads>>

\* a POST to /auth/paddle/webhook, handled by auth.paddle_webhook_route
AuthPaddleWebhook ==
    /\ phase = "idle"
    /\ \E body \in AuthBodies : \E header \in SignaturesFor(body) :
        \E pick \in FirstRows(body) :
            \E r \in {paddle_webhook_route(body, header, pick)} :
            /\ phase' = "done"
            /\ request' = [endpoint |-> "/auth/paddle/webhook", body |-> body,
                           signature |-> header]
            /\ response' = [code |-> r.code, json |-> r.json]
            /\ calls' = r.calls
            /\ users' = r.users
            /\ UNCHANGED <<env_secret, paddle_service, task, issues, accepted, search, render, synthesis, call, threads>>

\* a direct call of PaddlePaymentService.verify_webhook_signature on the
\* singleton, as the unit tests make it
VerifyWebhookSignature ==
    /\ phase = "idle"
    /\ \E body \in DirectBodies : \E signature \in SignaturesFor(body) :
            LET svc == get_paddle_service
                valid == verify_webhook_signature(svc.webhook_secret, body, signature)
            IN
            /\ phase' = "done"
            /\ request' = [endpoint |-> "verify_webhook_signature", body |-> body,
                           signature |-> signature]
            /\ response' = NoResponse
            /\ calls' = <<Call("verify_webhook_signature", body, signature, BoolStr(valid))>>
            /\ paddle_service' = svc
            /\ UNCHANGED <<env_secret, users, task, issues, accepted, search, render, synthesis, call, threads>>

\* a direct call of services.verify_paddle_webhook
VerifyPaddleWebhook ==
    /\ phase = "idle"
    /\ \E body \in DirectBodies : \E signature \in SignaturesFor(body) :
            LET valid == verify_paddle_webhook(body, signature) IN
            /\ phase' = "done"
            /\ request' = [endpoint |-> "verify_paddle_webhook", body |-> body,
                           signature |-> signature]
            /\ response' = NoResponse
            /\ calls' = <<Call("verify_paddle_webhook", body, signature, BoolStr(valid))>>
            /\ UNCHANGED <<env_secret, paddle_service, users, task, issues, accepted, search, render, synthesis, call, threads>>

\* the response has been returned: the worker takes the next request
Return ==
    /\ phase = "done"
    /\ phase' = "idle"
    /\ request' = NoRequest
    /\ response' = NoResponse
    /\ calls' = <<>>
    /\ UNCHANGED <<env_secret, paddle_service, users, task, issues, accepted, search, render, synthesis, call, threads>>

----------------------------------------------------------------------------
(* Celery tasks (app/tasks.py) *)

\* max_retries of the task decorators
GenMaxRetries == 3
EmailMaxRetries == 5
IssueMaxRetries == 3

\* the countdown bases of the retry calls, in seconds
GenBaseDelay == 60
EmailBaseDelay == 30
IssueRetryDelay == 120

TaskKinds == {"generate_newsletter_async", "send_email_async", "send_newsletter_issue"}

max_retries(kind) ==
    CASE kind = "generate_newsletter_async" -> GenMaxRetries
      [] kind = "send_email_async" -> EmailMaxRetries
      [] OTHER -> IssueMaxRetries

\* countdown with the exponent dropped
countdown_constant(kind, retries) ==
    CASE kind = "generate_newsletter_async" -> GenBaseDelay
      [] kind = "send_email_async" -> EmailBaseDelay
      [] OTHER -> IssueRetryDelay

\* the countdown argument of self.retry, from self.request.retries
countdown(kind, retries) ==
    CASE kind = "generate_newsletter_async" -> GenBaseDelay * (2 ^ retries)
      [] kind = "send_email_async" -> EmailBaseDelay * (2 ^ retries)
      [] OTHER -> IssueRetryDelay

\* Task.retry allowing one retry more than max_retries
retry_one_more(kind, request_retries, exc) ==
    LET retries == request_retries + 1 IN
    IF retries > max_retries(kind) + 1
    THEN IF exc /= None THEN "exc" ELSE "MaxRetriesExceededError"
    ELSE "Retry"

\* celery Task.retry(exc=exc, countdown=...) in a worker: what the call raises.
\* With retries = request.retries + 1 > max_retries it re-raises exc when one
\* is given and raises MaxRetriesExceededError only when none is; otherwise it
\* re-sends the task and raises Retry
retry(kind, request_retries, exc) ==
    LET retries == request_retries + 1 IN
    IF retries > max_retries(kind)
    THEN IF exc /= None THEN "exc" ELSE "MaxRetriesExceededError"
    ELSE "Retry"

\* outcomes of the calls a task body makes
GenerateOutcomes == {"raise", "None", "ok"}     \* services.generate_newsletter_content
SendOutcomes == {"raise", "False", "ok"}        \* services.send_email
NotCalled == "not called"

NoResult ==
    [success |-> None, error |-> None, content |-> None, to_email |-> None,
     content_generated |-> None, email_sent |-> None]

NoTask ==
    [id |-> None, kind |-> None, state |-> "NONE", retries |-> 0,
     outcomes |-> <<>>, delays |-> <<>>, result |-> NoResult, raised |-> None,
     lost |-> 0]

\* the except clause of a task body: self.retry is called with the exception;
\* Retry propagates (state RETRY, the task re-sent with retries + 1), the
\* except MaxRetriesExceededError clause returns error_result, any other
\* exception propagates (state FAILURE)
on_exception(t, attempt, exc, error_result) ==
    LET raised == retry(t.kind, t.retries, exc)
        seen == [t EXCEPT !.outcomes = Append(@, attempt)]
    IN
    CASE raised = "Retry" ->
            [seen EXCEPT !.state = "RETRY", !.retries = @ + 1,
                         !.delays = Append(@, countdown(t.kind, t.retries))]
      [] raised = "MaxRetriesExceededError" ->
            [seen EXCEPT !.state = "SUCCESS", !.result = error_result]
      [] OTHER ->
            [seen EXCEPT !.state = "FAILURE", !.raised = exc]

\* one execution of generate_newsletter_async
generate_newsletter_async(t, gen) ==
    LET attempt == [gen |-> gen, email |-> NotCalled] IN
    IF gen = "ok"
    THEN [t EXCEPT !.state = "SUCCESS", !.outcomes = Append(@, attempt),
                   !.result = [NoResult EXCEPT !.content = "subject+content"]]
    ELSE on_exception(t, attempt,
                      IF gen = "raise" THEN "provider error"
                      ELSE "Newsletter generation service returned None",
                      [NoResult EXCEPT
                          !.error = "Failed to generate newsletter after multiple retries"])

\* one execution of send_email_async
send_email_async(t, email) ==
    LET attempt == [gen |-> NotCalled, email |-> email] IN
    IF email = "ok"
    THEN [t EXCEPT !.state = "SUCCESS", !.outcomes = Append(@, attempt),
                   !.result = [NoResult EXCEPT !.success = "True", !.to_email = "to"]]
    ELSE on_exception(t, attempt,
                      IF email = "raise" THEN "provider error" ELSE "Email sending failed",
                      [NoResult EXCEPT
                          !.success = "False", !.to_email = "to",
                          !.error = "Failed to send email after multiple retries"])

\* the calls of one execution of send_newsletter_issue with the content check
\* dropped: the email is sent whatever generation returned
issue_calls_unchecked(gen, email) ==
    IF gen = "raise" THEN [gen |-> gen, email |-> NotCalled]
    ELSE [gen |-> gen, email |-> email]

\* the calls one execution of send_newsletter_issue makes: send_email is
\* reached only when generate_newsletter_content returned content
issue_calls(gen, email) ==
    IF gen = "ok" THEN [gen |-> gen, email |-> email]
    ELSE [gen |-> gen, email |-> NotCalled]

\* one execution of send_newsletter_issue
send_newsletter_issue(t, gen, email) ==
    LET attempt == issue_calls(gen, email)
        exc == CASE gen = "raise" -> "provider error"
                 [] gen = "None" -> "Content generation failed: None"
                 [] attempt.email = "raise" -> "provider error"
                 [] OTHER -> "Email sending failed"
    IN
    IF attempt.email = "ok"
    THEN [t EXCEPT !.state = "SUCCESS", !.outcomes = Append(@, attempt),
                   !.result = [NoResult EXCEPT !.success = "True",
                                               !.content_generated = "True",
                                               !.email_sent = "True"]]
    ELSE on_exception(t, attempt, exc,
                      [NoResult EXCEPT !.success = "False", !.error = exc])

\* a client sends a task: task.delay(...) / apply_async
Delay ==
    /\ task.state = "NONE"
    /\ \E kind \in TaskKinds :
          task' = [NoTask EXCEPT !.id = "task-1", !.kind = kind, !.state = "PENDING"]
    /\ UNCHANGED webhook_vars

\* a worker executes the task once, first or after a retry
Execute ==
    /\ task.state \in {"PENDING", "RETRY"}
    /\ \E gen \in GenerateOutcomes : \E email \in SendOutcomes :
          task' = CASE task.kind = "generate_newsletter_async" ->
                          generate_newsletter_async(task, gen)
                    [] task.kind = "send_email_async" ->
                          send_email_async(task, email)
                    [] OTHER -> send_newsletter_issue(task, gen, email)
    /\ UNCHANGED webhook_vars

\* celery_config.make_celery: the error-handling settings
task_acks_late == TRUE
task_reject_on_worker_lost == TRUE

MaxWorkerLost == 2

\* the worker acknowledging the message of a lost task instead of rejecting it
worker_lost_acknowledged(t) ==
    [t EXCEPT !.state = "FAILURE", !.raised = "WorkerLostError", !.lost = @ + 1]

\* what the worker does with a task whose child process was lost
\* (WorkerLostError): with acks_late and reject_on_worker_lost the unacknowledged
\* message is rejected with requeue and no result is stored; otherwise the
\* message is acknowledged and the task marked as failed
worker_lost(t) ==
    IF task_acks_late /\ task_reject_on_worker_lost
    THEN [t EXCEPT !.lost = @ + 1]
    ELSE [t EXCEPT !.state = "FAILURE", !.raised = "WorkerLostError", !.lost = @ + 1]

\* the worker process executing the task is killed before the task finished
WorkerLost ==
    /\ task.state \in {"PENDING", "RETRY"}
    /\ task.lost < MaxWorkerLost
    /\ task' = worker_lost(task)
    /\ UNCHANGED webhook_vars

----------------------------------------------------------------------------
(* POST /api/generate *)

\* app/constants.py
MIN_TOPIC_LENGTH == 3
MAX_TOPIC_LENGTH == 500

RECURSIVE Repeat(_, _)
Repeat(s, n) ==
    IF n = 0 THEN ""
    ELSE LET half == Repeat(s, n \div 2)
         IN  half \o half \o (IF n % 2 = 1 THEN s ELSE "")

Char(s, i) == SubSeq(s, i, i)

IsSpace(c) == c \in {" ", "\n", "\t", "\r"}

\* str.strip(): leading and trailing whitespace removed
RECURSIVE LStrip(_)
LStrip(s) ==
    IF Len(s) > 0 /\ IsSpace(Char(s, 1)) THEN LStrip(SubSeq(s, 2, Len(s))) ELSE s

RECURSIVE RStrip(_)
RStrip(s) ==
    IF Len(s) > 0 /\ IsSpace(Char(s, Len(s))) THEN RStrip(SubSeq(s, 1, Len(s) - 1))
    ELSE s

Strip(s) == RStrip(LStrip(s))

UpperCase == "ABCDEFGHIJKLMNOPQRSTUVWXYZ"
LowerCase == "abcdefghijklmnopqrstuvwxyz"

LowerChar(c) ==
    LET at == {i \in 1..Len(UpperCase) : Char(UpperCase, i) = c}
    IN  IF at = {} THEN c ELSE Char(LowerCase, CHOOSE i \in at : TRUE)

\* str.lower()
RECURSIVE Lower(_)
Lower(s) ==
    IF Len(s) = 0 THEN ""
    ELSE IF Len(s) = 1 THEN LowerChar(s)
    ELSE Lower(SubSeq(s, 1, Len(s) \div 2)) \o Lower(SubSeq(s, Len(s) \div 2 + 1, Len(s)))

\* re.search of a literal pattern
Contains(text, pattern) ==
    \E i \in 1..(Len(text) - Len(pattern) + 1) :
        SubSeq(text, i, i + Len(pattern) - 1) = pattern

WordChar(c) ==
    \E i \in 1..Len(LowerCase \o UpperCase \o "0123456789_") :
        Char(LowerCase \o UpperCase \o "0123456789_", i) = c

\* re.search(r'on\w+\s*=', text): "on", word characters, optional spaces, "="
MatchesOnAttribute(text) ==
    \E i \in 1..(Len(text) - 1) :
        /\ SubSeq(text, i, i + 1) = "on"
        /\ \E j \in (i + 2)..Len(text) :
              /\ \A w \in (i + 2)..j : WordChar(Char(text, w))
              /\ \E k \in (j + 1)..Len(text) :
                    /\ \A b \in (j + 1)..(k - 1) : Char(text, b) = " "
                    /\ Char(text, k) = "="

\* InputValidator._contains_injection_patterns
contains_injection_patterns(text) ==
    LET text_lower == Lower(text) IN
    \/ \E pattern \in {"<script", "javascript:", "<iframe", "<object", "<embed"} :
          Contains(text_lower, pattern)
    \/ MatchesOnAttribute(text_lower)

\* InputValidator.validate_topic: (is_valid, error_message)
validate_topic(topic) ==
    IF Falsy(topic) THEN [is_valid |-> FALSE, error |-> "Topic is required"]
    ELSE LET stripped == Strip(topic) IN
         IF Len(stripped) < MIN_TOPIC_LENGTH
         THEN [is_valid |-> FALSE, error |-> "Topic must be at least 3 characters"]
         ELSE IF Len(stripped) > MAX_TOPIC_LENGTH
         THEN [is_valid |-> FALSE, error |-> "Topic must be at most 500 characters"]
         ELSE IF contains_injection_patterns(stripped)
         THEN [is_valid |-> FALSE, error |-> "Topic contains invalid characters"]
         ELSE [is_valid |-> TRUE, error |-> None]

\* the topic field of the posted JSON; None when the key is absent
Topics ==
    {None, "", "AI", "ab", "  a  ", "Artificial Intelligence",
     "<script>alert(1)</script>Valid topic", "<SCRIPT src=x>", "Cats onload = 1",
     Repeat("a", MAX_TOPIC_LENGTH), Repeat("a", MAX_TOPIC_LENGTH + 1)}

\* routes.generate_newsletter: no task is sent; the topic is echoed
generate_newsletter(topic_field) ==
    LET topic == IF topic_field = None THEN "" ELSE topic_field   \* data.get('topic', '')
    IN  IF Falsy(topic)
        THEN [code |-> 400, json |-> ErrorJson("No topic provided")]
        ELSE [code |-> 202, json |-> [NoJson EXCEPT !.status = "processing", !.topic = topic]]

\* a POST to /api/generate with a JSON body {topic}
GenerateNewsletter ==
    /\ phase = "idle"
    /\ \E topic \in Topics :
          /\ request' = [endpoint |-> "/api/generate", body |-> topic, signature |-> None]
          /\ response' = generate_newsletter(topic)
    /\ phase' = "done"
    /\ calls' = <<>>
    /\ UNCHANGED <<env_secret, paddle_service, users, task, issues, accepted, search, render, synthesis, call, threads>>

----------------------------------------------------------------------------
(* Brave search with mock fallback (app/services.py) *)

\* app/constants.py
MAX_MOCK_RESULTS == 5

Min(a, b) == IF a < b THEN a ELSE b

SearchResult(success, source, query, results, total_results, error) ==
    [success |-> success, source |-> source, query |-> query, results |-> results,
     total_results |-> total_results, error |-> error, raised |-> None]

\* _get_mock_search_results without the ceiling on the number of results
get_mock_search_results_unlimited(query, count) ==
    SearchResult(TRUE, "mock", query,
        [i \in 1..count |->
            [title |-> "Mock Result " \o ToString(i) \o " for \"" \o query \o "\"",
             url |-> "https://example.com/result/" \o ToString(i),
             description |-> "This is a mock search result for the query \""
                 \o query \o "\". In production, this would be replaced with "
                 \o "real results from Brave Search API."]],
        count, None)

\* _get_mock_search_results: range(actual_count) is empty for a count below 1
get_mock_search_results(query, count) ==
    LET actual_count == Min(count, MAX_MOCK_RESULTS) IN
    SearchResult(TRUE, "mock", query,
        [i \in 1..actual_count |->
            [title |-> "Mock Result " \o ToString(i) \o " for \"" \o query \o "\"",
             url |-> "https://example.com/result/" \o ToString(i),
             description |-> "This is a mock search result for the query \""
                 \o query \o "\". In production, this would be replaced with "
                 \o "real results from Brave Search API."]],
        actual_count, None)

\* items of the API's web.results; a missing field is None
WebItems ==
    {[title |-> "Brave hit", url |-> "https://brave.example/1", description |-> "found"],
     [title |-> None, url |-> "https://brave.example/2", description |-> None]}

\* _parse_brave_results: item.get(field, "")
parse_brave_results(web_results) ==
    [i \in 1..Len(web_results) |->
        [title |-> IF web_results[i].title = None THEN "" ELSE web_results[i].title,
         url |-> IF web_results[i].url = None THEN "" ELSE web_results[i].url,
         description |-> IF web_results[i].description = None THEN ""
                         ELSE web_results[i].description]]

\* what requests.get does: a response with a status code and a body, a
\* timeout, or another exception; a 200 body may fail to decode as JSON
ApiOutcomes ==
    [kind : {"response"}, status_code : {200}, json_ok : {TRUE},
     web_results : {<<>>} \cup {<<a>> : a \in WebItems}
                   \cup {<<a, b>> : a \in WebItems, b \in WebItems}]
    \cup [kind : {"response"}, status_code : {200}, json_ok : {FALSE}, web_results : {<<>>}]
    \cup [kind : {"response"}, status_code : {401, 429, 500}, json_ok : {TRUE},
          web_results : {<<>>}]
    \cup [kind : {"timeout", "exception"}, status_code : {0}, json_ok : {FALSE},
          web_results : {<<>>}]

\* the failure branch with the fallback ignored: the error result always
error_result_always(query, count, fallback_to_mock, error_msg) ==
    SearchResult(FALSE, "brave", query, <<>>, 0, error_msg)

\* the block each failure branch of search_brave repeats: the mock results
\* when fallback_to_mock, the error result otherwise
fallback_or_error(query, count, fallback_to_mock, error_msg) ==
    IF fallback_to_mock THEN get_mock_search_results(query, count)
    ELSE SearchResult(FALSE, "brave", query, <<>>, 0, error_msg)

\* services.search_brave
search_brave(brave_api_key, api, query, count, fallback_to_mock) ==
    IF Falsy(brave_api_key)
    THEN fallback_or_error(query, count, fallback_to_mock,
                           "Brave Search API key not configured")
    ELSE IF api.kind = "timeout"
    THEN fallback_or_error(query, count, fallback_to_mock,
                           "Brave Search API request timed out")
    ELSE IF api.kind = "exception"
    THEN fallback_or_error(query, count, fallback_to_mock,
                           "Brave Search error: connection failed")
    ELSE IF api.status_code = 200
    THEN IF api.json_ok
         THEN LET parsed_results == parse_brave_results(api.web_results) IN
              SearchResult(TRUE, "brave", query, parsed_results, Len(parsed_results), None)
         \* response.json() raises inside the try block
         ELSE fallback_or_error(query, count, fallback_to_mock,
                                "Brave Search error: invalid JSON")
    ELSE fallback_or_error(query, count, fallback_to_mock,
                           "Brave API returned status code " \o ToString(api.status_code))

Queries == {"x", "test query", ""}
Counts == {-1, 0, 1, 3, 5, 6, 10, 100}
ApiKeys == {None, "", "BSA-key"}

NoApi == [kind |-> "not called", status_code |-> 0, json_ok |-> FALSE, web_results |-> <<>>]

NoSearch ==
    [fn |-> None, brave_api_key |-> None, api |-> NoApi, query |-> "", count |-> 0,
     fallback_to_mock |-> FALSE,
     result |-> SearchResult(FALSE, None, "", <<>>, 0, None)]

\* a call of services.search_brave(query, count, fallback_to_mock) with
\* BRAVE_SEARCH_API_KEY set or not and the API answering in some way
SearchBrave ==
    /\ \E brave_api_key \in ApiKeys : \E api \in ApiOutcomes :
       \E query \in Queries : \E count \in Counts : \E fallback_to_mock \in BOOLEAN :
            search' = [fn |-> "search_brave", brave_api_key |-> brave_api_key,
                       api |-> IF Falsy(brave_api_key) THEN NoApi ELSE api,
                       query |-> query, count |-> count,
                       fallback_to_mock |-> fallback_to_mock,
                       result |-> search_brave(brave_api_key, api, query, count,
                                               fallback_to_mock)]
    /\ UNCHANGED <<env_secret, paddle_service, users, request, response, calls, phase,
                   task, issues, accepted, render, synthesis, call, threads>>

\* a direct call of services._get_mock_search_results(query, count)
GetMockSearchResults ==
    /\ \E query \in Queries : \E count \in Counts :
            search' = [NoSearch EXCEPT !.fn = "_get_mock_search_results",
                                       !.query = query, !.count = count,
                                       !.result = get_mock_search_results(query, count)]
    /\ UNCHANGED <<env_secret, paddle_service, users, request, response, calls, phase,
                   task, issues, accepted, render, synthesis, call, threads>>

----------------------------------------------------------------------------
(* NewsletterRenderer (app/newsletter_synthesis.py) *)

StartsWith(s, prefix) == Len(s) >= Len(prefix) /\ SubSeq(s, 1, Len(prefix)) = prefix

Occurrences(s, sep) ==
    {i \in 1..(Len(s) - Len(sep) + 1) : SubSeq(s, i, i + Len(sep) - 1) = sep}

Least(S) == CHOOSE i \in S : \A j \in S : i <= j

\* str.split(sep): cut at each occurrence of sep, left to right
RECURSIVE Split(_, _)
Split(s, sep) ==
    IF Occurrences(s, sep) = {} THEN <<s>>
    ELSE LET i == Least(Occurrences(s, sep)) IN
         <<SubSeq(s, 1, i - 1)>> \o Split(SubSeq(s, i + Len(sep), Len(s)), sep)

\* sep.join(parts)
RECURSIVE Join(_, _)
Join(parts, sep) ==
    IF Len(parts) = 0 THEN ""
    ELSE IF Len(parts) = 1 THEN parts[1]
    ELSE parts[1] \o sep \o Join(Tail(parts), sep)

\* re.sub(mark(.*?)mark, <strong>\1</strong>, html) for a two-character
\* mark: the leftmost mark that has a later mark on its line pairs with the
\* nearest one ("." does not match a newline)
RECURSIVE SubStrong(_, _)
SubStrong(html, mark) ==
    LET Closes(i) ==
            {j \in (i + 2)..(Len(html) - 1) :
                /\ SubSeq(html, j, j + 1) = mark
                /\ ~Contains(SubSeq(html, i + 2, j - 1), "\n")}
        opens == {i \in Occurrences(html, mark) : Closes(i) # {}}
    IN  IF opens = {} THEN html
        ELSE LET i == Least(opens)
                 j == Least(Closes(i))
             IN  SubSeq(html, 1, i - 1) \o "<strong>" \o SubSeq(html, i + 2, j - 1)
                 \o "</strong>" \o SubStrong(SubSeq(html, j + 2, Len(html)), mark)

\* the header branch of _markdown_to_html's loop over the lines
process_line(line) ==
    IF StartsWith(line, "### ") THEN "<h3>" \o SubSeq(line, 5, Len(line)) \o "</h3>"
    ELSE IF StartsWith(line, "## ") THEN "<h2>" \o SubSeq(line, 4, Len(line)) \o "</h2>"
    ELSE IF StartsWith(line, "# ") THEN "<h1>" \o SubSeq(line, 3, Len(line)) \o "</h1>"
    ELSE line

\* the headers and the bold text converted, before the paragraphs are cut
convert_inline(markdown_text) ==
    LET lines == Split(markdown_text, "\n")
        processed_lines == [i \in 1..Len(lines) |-> process_line(lines[i])]
    IN  SubStrong(SubStrong(Join(processed_lines, "\n"), "**"), "__")

\* _markdown_to_html with the paragraph step left out
markdown_to_html_inline_only(markdown_text) == convert_inline(markdown_text)

\* NewsletterRenderer._markdown_to_html
markdown_to_html(markdown_text) ==
    LET paragraphs == Split(convert_inline(markdown_text), "\n\n")
        stripped == [i \in 1..Len(paragraphs) |-> Strip(paragraphs[i])]
        Wrapped(para) ==
            IF \E i \in 1..6 : StartsWith(para, "<h" \o ToString(i) \o ">")
            THEN para
            ELSE "<p>" \o para \o "</p>"
        html_paragraphs ==
            SelectSeq([i \in 1..Len(stripped) |->
                          IF stripped[i] = "" THEN "" ELSE Wrapped(stripped[i])],
                      LAMBDA para : para # "")
    IN  Join(html_paragraphs, "\n")

\* the f-string template of render_html
html_template(subject, html_content) ==
    "\n"
    \o "<!DOCTYPE html>\n"
    \o "<html lang=\"en\">\n"
    \o "<head>\n"
    \o "    <meta charset=\"UTF-8\">\n"
    \o "    <meta name=\"viewport\" content=\"width=device-width, initial-scale=1.0\">\n"
    \o "    <title>"
    \o subject
    \o "</title>\n"
    \o "    <style>\n"
    \o "        body {\n"
    \o "            font-family: Arial, sans-serif;\n"
    \o "            line-height: 1.6;\n"
    \o "            max-width: 600px;\n"
    \o "            margin: 0 auto;\n"
    \o "            padding: 20px;\n"
    \o "            background-color: #f4f4f4;\n"
    \o "        }\n"
    \o "        .container {\n"
    \o "            background-color: white;\n"
    \o "            padding: 30px;\n"
    \o "            border-radius: 5px;\n"
    \o "            box-shadow: 0 2px 5px rgba(0,0,0,0.1);\n"
    \o "        }\n"
    \o "        h1 {\n"
    \o "            color: #333;\n"
    \o "            border-bottom: 3px solid #007bff;\n"
    \o "            padding-bottom: 10px;\n"
    \o "        }\n"
    \o "        h2 {\n"
    \o "            color: #555;\n"
    \o "            margin-top: 25px;\n"
    \o "        }\n"
    \o "        h3 {\n"
    \o "            color: #666;\n"
    \o "        }\n"
    \o "        a {\n"
    \o "            color: #007bff;\n"
    \o "            text-decoration: none;\n"
    \o "        }\n"
    \o "        a:hover {\n"
    \o "            text-decoration: underline;\n"
    \o "        }\n"
    \o "        .footer {\n"
    \o "            margin-top: 30px;\n"
    \o "            padding-top: 20px;\n"
    \o "            border-top: 1px solid #ddd;\n"
    \o "            color: #777;\n"
    \o "            font-size: 0.9em;\n"
    \o "        }\n"
    \o "    </style>\n"
    \o "</head>\n"
    \o "<body>\n"
    \o "    <div class=\"container\">\n"
    \o "        <h1>"
    \o subject
    \o "</h1>\n"
    \o "        "
    \o html_content
    \o "\n"
    \o "        <div class=\"footer\">\n"
    \o "            <p>Thank you for reading!</p>\n"
    \o "        </div>\n"
    \o "    </div>\n"
    \o "</body>\n"
    \o "</html>\n"

\* NewsletterRenderer.render_html; the dictionary's keys are both present
render_html(subject, content) == html_template(subject, markdown_to_html(content))

MaxLines == 4

MarkdownLines ==
    {"# H", "## Sub", "### Deep", "P", "", "is **bold** text", "#### four", " "}

\* the markdown texts of at most MaxLines lines
Contents ==
    UNION {{Join(lines, "\n") : lines \in [1..n -> MarkdownLines]} : n \in 1..MaxLines}

Subjects == {"S", "HTML Newsletter"}

NoRender ==
    [subject |-> None, content |-> None, html_content |-> None, output |-> None]

\* renderer.render_html({'subject': subject, 'content': content})
RenderHtml ==
    /\ render.content # None
    /\ render.output = None
    /\ render' = [render EXCEPT !.html_content = markdown_to_html(render.content),
                                !.output = render_html(render.subject, render.content)]
    /\ UNCHANGED <<env_secret, paddle_service, users, request, response, calls, phase,
                   task, issues, accepted, search, synthesis, call, threads>>

----------------------------------------------------------------------------
(* POST /api/admin/synthesize (app/routes.py) *)

\* str.replace(old, new)
Replace(s, old, new) == Join(Split(s, old), new)

\* NewsletterRenderer.render_plain_text
render_plain_text(subject, body) ==
    LET unheaded == Replace(Replace(Replace(body, "# ", ""), "## ", ""), "### ", "")
        unmarked == Replace(Replace(unheaded, "**", ""), "__", "")
        plain_content == Replace(Replace(unmarked, "[", ""), "]", "")
    IN  "Subject: " \o subject \o "\n" \o Repeat("=", 70) \o "\n\n" \o plain_content
        \o "\n\n" \o Repeat("=", 70) \o "\n"

\* The JSON body. "kind" is "empty" for a request with no body, "null" for the
\* body null and "object" for a JSON object; a field of the object is None
\* when absent, and otherwise the JSON value: a number or a boolean as its
\* JSON text, a string as itself.
SynthesizeBodies ==
    [kind : {"empty", "null"}, newsletter_id : {None}, topic : {None}, format : {None},
     send_email : {None}, email_to : {None}]
    \cup [kind : {"object"}, newsletter_id : {None, "0", "1"},
          topic : {None, "", "AI Weekly"}, format : {None, "html", "text", "both"},
          send_email : {None, "false", "true"},
          email_to : {None, "", "admin@example.com"}]

\* what NewsletterSynthesizer.generate_on_demand does: a result with
\* success true, a result with success false, or (a stand-in) an exception
GenerateOnDemandOutcomes ==
    [kind : {"ok"}, subject : {"AI Weekly Newsletter"},
     content : {"# AI Weekly\n\nWelcome to **this** week.", "Content"}, error : {None}]
    \cup [kind : {"failed", "raises"}, subject : {None}, content : {None},
          error : {"Synthesis failed"}]

NoRendered == [html |-> None, text |-> None]

SynthesizeResponse(code, error) ==
    [code |-> code, error |-> error, details |-> None, success |-> None,
     subject |-> None, content |-> None, rendered |-> NoRendered, format |-> None,
     email_sent |-> None]

\* the four validations of the handler without the one of email_to
validation_error_without_email_to(data) ==
    IF data.kind = "empty" THEN "Bad Request"
    ELSE IF data.kind = "null" THEN "No data provided"
    ELSE IF /\ data.newsletter_id = None /\ data.topic = None /\ data.format = None
            /\ data.send_email = None /\ data.email_to = None
    THEN "No data provided"
    ELSE IF data.newsletter_id \in {None, "0"} THEN "newsletter_id is required"
    ELSE IF Falsy(data.topic) THEN "topic is required"
    ELSE None

\* the validations of synthesize_newsletter, in order: the error of the
\* first that fails, or None. request.json raises BadRequest on an empty
\* body; "not data" is true of null and of {}; "not newsletter_id" of a
\* missing id and of 0; "not topic" and "not email_to" of a missing or
\* empty string
validation_error(data) ==
    IF data.kind = "empty" THEN "Bad Request"
    ELSE IF data.kind = "null" THEN "No data provided"
    ELSE IF /\ data.newsletter_id = None /\ data.topic = None /\ data.format = None
            /\ data.send_email = None /\ data.email_to = None
    THEN "No data provided"
    ELSE IF data.newsletter_id \in {None, "0"} THEN "newsletter_id is required"
    ELSE IF Falsy(data.topic) THEN "topic is required"
    ELSE IF data.send_email = "true" /\ Falsy(data.email_to)
    THEN "email_to is required when send_email is true"
    ELSE None

\* routes.synthesize_newsletter: the response and the calls made, in order
synthesize_newsletter(data, generation, delivered) ==
    IF validation_error(data) # None
    THEN [response |-> SynthesizeResponse(400, validation_error(data)), calls |-> <<>>]
    ELSE IF generation.kind = "raises"
    THEN [response |-> [SynthesizeResponse(500, "Internal server error")
                            EXCEPT !.details = generation.error],
          calls |-> <<"generate_on_demand">>]
    ELSE IF generation.kind = "failed"
    THEN [response |-> [SynthesizeResponse(500, "Newsletter synthesis failed")
                            EXCEPT !.details = generation.error],
          calls |-> <<"generate_on_demand">>]
    ELSE
    LET output_format == IF data.format = None THEN "html" ELSE data.format
        rendered_output ==
            IF output_format = "both"
            THEN [html |-> render_html(generation.subject, generation.content),
                  text |-> render_plain_text(generation.subject, generation.content)]
            ELSE IF output_format = "text"
            THEN [NoRendered EXCEPT
                    !.text = render_plain_text(generation.subject, generation.content)]
            ELSE [NoRendered EXCEPT
                    !.html = render_html(generation.subject, generation.content)]
        render_calls ==
            IF output_format = "both" THEN <<"render_html", "render_plain_text">>
            ELSE IF output_format = "text" THEN <<"render_plain_text">>
            ELSE <<"render_html">>
        send_email_flag == data.send_email = "true"
    IN  [response |->
            [SynthesizeResponse(200, None) EXCEPT
                !.success = TRUE, !.subject = generation.subject,
                !.content = generation.content, !.rendered = rendered_output,
                !.format = output_format,
                !.email_sent = send_email_flag /\ delivered],
         calls |-> <<"generate_on_demand">> \o render_calls
                   \o (IF send_email_flag THEN <<"send_email">> ELSE <<>>)]

NoSynthesis ==
    [data |-> [kind |-> None, newsletter_id |-> None, topic |-> None, format |-> None,
               send_email |-> None, email_to |-> None],
     generation |-> [kind |-> None, subject |-> None, content |-> None, error |-> None],
     delivered |-> FALSE, calls |-> <<>>, response |-> SynthesizeResponse(0, None)]

\* the request handled by routes.synthesize_newsletter
SynthesizeNewsletter ==
    /\ synthesis.data.kind # None
    /\ synthesis.response.code = 0
    /\ \E r \in {synthesize_newsletter(synthesis.data, synthesis.generation,
                                       synthesis.delivered)} :
            synthesis' = [synthesis EXCEPT !.calls = r.calls, !.response = r.response]
    /\ UNCHANGED <<env_secret, paddle_service, users, request, response, calls, phase,
                   task, issues, accepted, search, render, call, threads>>

----------------------------------------------------------------------------
(* POST /api/claude/generate (app/routes.py, app/claude_service.py) *)

\* the JSON object posted: a field is None when absent
ClaudeBodies == [prompt : {None, "", "Test prompt"}, model : {None, "claude-haiku-4-5"}]

\* what claude_service.generate_text returns: None without an API key or
\* when the API call raises, and otherwise the parsed response (its text)
GenerateTextOutcomes == {None, "Generated text"}

\* claude_generate answering 200 whatever generate_text returned
claude_generate_ignoring_failure(data, result) ==
    [response |-> [code |-> 200, json |-> [NoJson EXCEPT !.success = "True",
                                                         !.text = result]],
     calls |-> <<Call("generate_text", data.prompt, data.model, result)>>]

\* routes.claude_generate: the response and the calls made
claude_generate(data, result) ==
    IF data.prompt = None /\ data.model = None      \* not data: the body {}
    THEN [response |-> [code |-> 400, json |-> ErrorJson("No data provided")],
          calls |-> <<>>]
    ELSE IF Falsy(data.prompt)
    THEN [response |-> [code |-> 400, json |-> ErrorJson("No prompt provided")],
          calls |-> <<>>]
    ELSE IF result = None
    THEN [response |->
            [code |-> 500,
             json |-> ErrorJson("Failed to generate text. Check API key configuration.")],
          calls |-> <<Call("generate_text", data.prompt, data.model, result)>>]
    ELSE [response |-> [code |-> 200, json |-> [NoJson EXCEPT !.success = "True",
                                                              !.text = result]],
          calls |-> <<Call("generate_text", data.prompt, data.model, result)>>]

\* a POST to /api/claude/generate
ClaudeGenerate ==
    /\ phase = "idle"
    /\ \E data \in ClaudeBodies : \E result \in GenerateTextOutcomes :
       \E r \in {claude_generate(data, result)} :
          /\ request' = [endpoint |-> "/api/claude/generate", body |-> data.prompt,
                         signature |-> None]
          /\ response' = r.response
          /\ calls' = r.calls
    /\ phase' = "done"
    /\ UNCHANGED <<env_secret, paddle_service, users, task, issues, accepted, search,
                   render, synthesis, call, threads>>

----------------------------------------------------------------------------
(* services.generate_newsletter_content *)

NoContent == [subject |-> None, content |-> None, returned |-> "None"]

\* generate_newsletter_content cutting the response as it came, unstripped
generate_newsletter_content_unstripped(openai_api_key, completion) ==
    IF Falsy(openai_api_key) THEN NoContent
    ELSE IF completion.kind # "response" THEN NoContent
    ELSE IF completion.content = None THEN NoContent
    ELSE LET lines == Split(completion.content, "\n")
         IN  [subject |-> lines[1], content |-> Join(Tail(lines), "\n"),
              returned |-> "dict"]

\* services.generate_newsletter_content: None (returned "None") without a
\* client, on an API error and on any other exception, among them the
\* AttributeError of .strip() on a message without content; otherwise the
\* stripped response cut at its first newline
generate_newsletter_content(openai_api_key, completion) ==
    IF Falsy(openai_api_key) THEN NoContent
    ELSE IF completion.kind # "response" THEN NoContent
    ELSE IF completion.content = None THEN NoContent
    ELSE LET lines == Split(Strip(completion.content), "\n")
         IN  [subject |-> lines[1], content |-> Join(Tail(lines), "\n"),
              returned |-> "dict"]

\* what client.chat.completions.create does: it raises an API error or
\* another exception, or returns a message whose content may be None
Completions ==
    [kind : {"APIError", "APIConnectionError", "RateLimitError", "Exception"},
     content : {None}]
    \cup [kind : {"response"},
          content : {None, "", "Single line content without subject",
                     "Subject: Weekly AI Update\n\nFirst paragraph.\n\nConclusion.",
                     "\n\nSubject: Weekly AI Update\nBody", "Subject\nBody\n",
                     "  Subject \n Body", "\n", "One\nTwo\nThree"}]

ContentTopics == {"Test Topic", "AI Weekly"}

OpenAiKeys == {None, "", "sk-test"}

NoCall == [fn |-> None, input |-> None, env |-> None, done |-> FALSE, result |-> None]

\* services.generate_newsletter_content(topic) is called
GenerateNewsletterContent ==
    /\ call.fn = "generate_newsletter_content"
    /\ ~call.done
    /\ call' = [call EXCEPT !.done = TRUE,
                            !.result = generate_newsletter_content(call.env, call.input)]
    /\ UNCHANGED <<env_secret, paddle_service, users, request, response, calls, phase,
                   task, issues, accepted, search, render, synthesis, threads>>

----------------------------------------------------------------------------
(* NewsletterConfig (app/newsletter_synthesis.py) *)

ConfigFields ==
    {"schedule", "delivery_format", "max_content_items", "style", "send_time", "timezone"}

\* A NewsletterConfig() as its attributes, everything hasattr finds: the six
\* fields set by __init__ (a number as its text) and the attributes of the
\* class, the methods and the docstring
NewsletterConfig ==
    [schedule |-> "weekly", delivery_format |-> "html", max_content_items |-> "10",
     style |-> "professional", send_time |-> "09:00", timezone |-> "UTC",
     from_dict |-> "<method from_dict>", to_dict |-> "<method to_dict>",
     validate |-> "<method validate>", __doc__ |-> "Configuration settings"]

\* NewsletterConfig.from_dict: setattr for every key that hasattr finds
from_dict(self, config_dict) ==
    [attr \in DOMAIN self |->
        IF attr \in DOMAIN config_dict THEN config_dict[attr] ELSE self[attr]]

ConfigKeys == {"schedule", "style", "max_content_items", "unknown_field", "validate", "__doc__"}
ConfigValues == {"daily", "20"}

\* the dictionaries over some of the keys
ConfigDicts == UNION {[keys -> ConfigValues] : keys \in SUBSET ConfigKeys}

\* config.from_dict(config_dict) is called
FromDict ==
    /\ call.fn = "from_dict"
    /\ ~call.done
    /\ call' = [call EXCEPT !.done = TRUE, !.result = from_dict(call.env, call.input)]
    /\ UNCHANGED <<env_secret, paddle_service, users, request, response, calls, phase,
                   task, issues, accepted, search, render, synthesis, threads>>

----------------------------------------------------------------------------
(* Threads of the server calling get_paddle_service (app/payment_service.py) *)

NumThreads == 2
Threads == 1..NumThreads

\* a thread outside any call; "got" is the instance its last call returned
NoThread == [pc |-> "idle", got |-> 0]
NoThreads == [t \in Threads |-> NoThread]

\* "if _paddle_service is None": the thread reads the global
GetServiceCheck(t) ==
    /\ threads[t].pc = "idle"
    /\ threads' = [threads EXCEPT
                     ![t].pc = IF paddle_service.created THEN "return" ELSE "construct"]
    /\ UNCHANGED paddle_service

\* "_paddle_service = PaddlePaymentService()": a new instance is stored
GetServiceConstruct(t) ==
    /\ threads[t].pc = "construct"
    /\ paddle_service' = PaddlePaymentService
    /\ threads' = [threads EXCEPT ![t].pc = "return"]

\* "return _paddle_service": the thread reads the global again
GetServiceReturn(t) ==
    /\ threads[t].pc = "return"
    /\ threads' = [threads EXCEPT ![t].pc = "idle", ![t].got = paddle_service.instance]
    /\ UNCHANGED paddle_service

\* one step of a thread inside get_paddle_service
GetPaddleService ==
    /\ \E t \in Threads :
          \/ GetServiceCheck(t)
          \/ GetServiceConstruct(t)
          \/ GetServiceReturn(t)
    /\ UNCHANGED <<env_secret, users, request, response, calls, phase, task, issues,
                   accepted, search, render, synthesis, call>>

----------------------------------------------------------------------------
(* Concurrent deliveries to /auth/paddle/webhook (app/auth.py): each request
   is handled by its own thread with its own db.session; the handler queries
   the row and commits its change in two steps, with no lock between them *)

\* valid, verified deliveries about the subscriber b@x.io and the
\* subscriptions sub_2 and sub_9
SubscriptionDeliveries ==
    {[event_type |-> "subscription.created", email |-> "b@x.io", id |-> "sub_2",
      status |-> "active"],
     [event_type |-> "subscription.updated", email |-> "b@x.io", id |-> "sub_9",
      status |-> "active"],
     [event_type |-> "subscription.updated", email |-> "b@x.io", id |-> "sub_9",
      status |-> "paused"],
     [event_type |-> "subscription.canceled", email |-> None, id |-> "sub_2",
      status |-> None],
     [event_type |-> "subscription.canceled", email |-> None, id |-> "sub_9",
      status |-> None]}

NoRow == [email |-> None, subscription_id |-> None, is_active |-> FALSE]

\* the attributes the handler sets on the User object it loaded
assigned_ignoring_delivery(d, row) == row

assigned(d, row) ==
    IF d.event_type = "subscription.canceled"
    THEN [row EXCEPT !.is_active = FALSE]
    ELSE [row EXCEPT !.subscription_id = d.id, !.is_active = (d.status = "active")]

\* db.session.commit(): the UPDATE of the row sets the columns whose value
\* differs from the loaded one and leaves the others as they are in the table
committed(current, loaded, new) ==
    [email |-> current.email,
     subscription_id |-> IF new.subscription_id /= loaded.subscription_id
                         THEN new.subscription_id ELSE current.subscription_id,
     is_active |-> IF new.is_active /= loaded.is_active
                   THEN new.is_active ELSE current.is_active]

\* a thread that has received delivery d and not yet queried the table
Handling(d) ==
    [pc |-> "start", delivery |-> d, user |-> 0, loaded |-> NoRow, overlapped |-> FALSE]

InFlight(t) == threads[t].pc = "loaded"

\* User.query.filter_by(...).first(): the thread loads the row; without a row
\* the handler logs a warning and returns 200
WebhookQuery(t) ==
    /\ threads[t].pc = "start"
    /\ \E u \in IF threads[t].delivery.event_type = "subscription.canceled"
                THEN BySubscription(threads[t].delivery.id)
                ELSE ByEmail(threads[t].delivery.email) :
          LET others == \E o \in Threads \ {t} : InFlight(o) IN
          threads' = [o \in Threads |->
                        IF o = t
                        THEN [threads[t] EXCEPT
                                !.pc = IF u = 0 THEN "done" ELSE "loaded",
                                !.user = u,
                                !.loaded = IF u = 0 THEN NoRow ELSE users[u],
                                !.overlapped = others /\ u /= 0]
                        ELSE IF InFlight(o) /\ u /= 0
                             THEN [threads[o] EXCEPT !.overlapped = TRUE]
                             ELSE threads[o]]
    /\ UNCHANGED users

\* the assignments, db.session.add(user) and db.session.commit(); returns 200
WebhookCommit(t) ==
    /\ threads[t].pc = "loaded"
    /\ LET th == threads[t] IN
       users' = [users EXCEPT ![th.user] =
                    committed(users[th.user], th.loaded, assigned(th.delivery, th.loaded))]
    /\ threads' = [threads EXCEPT ![t].pc = "done"]

\* one step of a thread inside auth.paddle_webhook_route
ConcurrentPaddleWebhook ==
    /\ \E t \in Threads : WebhookQuery(t) \/ WebhookCommit(t)
    /\ UNCHANGED <<env_secret, paddle_service, request, response, calls, phase, task,
                   issues, accepted, search, render, synthesis, call>>

----------------------------------------------------------------------------
(* GET /auth/callback (app/auth.py) and User.get_or_create_from_auth0
   (app/models.py): each callback is handled by its own thread with the
   session of its browser; the users table is a sequence of rows here, a
   row's id being its index *)

\* the identities the provider reports: a new address, and the address of a
\* row that was registered without Auth0
Userinfos ==
    {[sub |-> "auth0|1", email |-> "n@x.io"],
     [sub |-> "auth0|2", email |-> "a@x.io"]}

\* what the provider does during one callback
ProviderOutcomes == {"ok", "token_error", "userinfo_error"}

\* the users tables a callback may find: without and with the row of auth0|1
UsersBefore ==
    {<<[email |-> "a@x.io", auth0_id |-> None, is_active |-> TRUE]>>,
     <<[email |-> "a@x.io", auth0_id |-> None, is_active |-> TRUE],
       [email |-> "n@x.io", auth0_id |-> "auth0|1", is_active |-> TRUE]>>}

NoUserinfo == [sub |-> None, email |-> None]

\* the session of a browser that is not logged in
NoSession == [jwt_payload |-> NoUserinfo, permanent |-> FALSE, user_id |-> 0]

\* a thread that has received the callback of a browser
Arrived(userinfo, outcome, rows) ==
    [pc |-> "start", userinfo |-> userinfo, outcome |-> outcome, user |-> 0,
     session |-> NoSession, response |-> None, inserted |-> FALSE, rows_before |-> rows]

\* "except Exception": redirect('/?error=auth_failed'); the session is saved
\* as it is
auth_failed(th) == [th EXCEPT !.pc = "done", !.response = "/?error=auth_failed"]

\* auth0.authorize_access_token(), auth0.get('userinfo').json(), then
\* session['jwt_payload'] = userinfo and session.permanent = True
CallbackAuthorize(t) ==
    /\ threads[t].pc = "start"
    /\ threads' = [threads EXCEPT ![t] =
                     IF threads[t].outcome /= "ok" THEN auth_failed(threads[t])
                     ELSE [threads[t] EXCEPT !.pc = "authorized",
                                             !.session.jwt_payload = threads[t].userinfo,
                                             !.session.permanent = TRUE]]
    /\ UNCHANGED users

\* get_or_create_from_auth0: cls.query.filter_by(auth0_id=sub).first()
CallbackQuery(t) ==
    /\ threads[t].pc = "authorized"
    /\ \E u \in First({i \in DOMAIN users : users[i].auth0_id = threads[t].userinfo.sub}) :
          threads' = [threads EXCEPT ![t].pc = "queried", ![t].user = u]
    /\ UNCHANGED users

\* the row db.session.commit() inserts; the unique index on email refuses a
\* second row with the same address (IntegrityError)
inserted_row(userinfo) ==
    [email |-> userinfo.email, auth0_id |-> userinfo.sub, is_active |-> TRUE]

\* get_or_create_from_auth0 from "if not user" on, then login_user(user) and
\* redirect('/dashboard')
CallbackCreateAndLogin(t) ==
    /\ threads[t].pc = "queried"
    /\ LET th == threads[t]
           taken == \E i \in DOMAIN users : users[i].email = th.userinfo.email
           LoggedIn(id, inserted) ==
               [th EXCEPT !.pc = "done", !.user = id, !.inserted = inserted,
                          !.session.user_id = id, !.response = "/dashboard"]
       IN
       IF th.user /= 0
       THEN /\ threads' = [threads EXCEPT ![t] = LoggedIn(th.user, FALSE)]
            /\ UNCHANGED users
       ELSE IF taken
       THEN /\ threads' = [threads EXCEPT ![t] = auth_failed(th)]
            /\ UNCHANGED users
       ELSE /\ users' = Append(users, inserted_row(th.userinfo))
            /\ threads' = [threads EXCEPT ![t] = LoggedIn(Len(users) + 1, TRUE)]

\* one step of a thread inside auth.callback
Callback ==
    /\ \E t \in Threads : CallbackAuthorize(t) \/ CallbackQuery(t) \/ CallbackCreateAndLogin(t)
    /\ UNCHANGED <<env_secret, paddle_service, request, response, calls, phase, task,
                   issues, accepted, search, render, synthesis, call>>

----------------------------------------------------------------------------
(* PaddlePaymentService.process_webhook_event called directly
   (app/payment_service.py) *)

\* event data that is no dict: a JSON list, string, number and boolean
NonDictData ==
    {[kind |-> k, email |-> None, id |-> None, status |-> None] :
        k \in {"list", "str", "int", "bool"}}

EventDatas == SubscriptionData \cup {NullData} \cup NonDictData

EventTypes == PaymentEventTypes \cup {None, "", "subscription.canceled", "payment.failed"}

\* type(data).__name__ of an event data value
TypeName(event_data) ==
    IF event_data.kind = "null" THEN "NoneType" ELSE event_data.kind

\* process_webhook_event without its try/except
webhook_event_result_uncaught(event_type, event_data) ==
    LET status == process_webhook_event(event_type, event_data) IN
    IF status = "error"
    THEN [status |-> None, event_type |-> None, message |-> None,
          raised |-> "AttributeError"]
    ELSE [status |-> status, event_type |-> event_type, message |-> None, raised |-> None]

\* process_webhook_event: the dict it returns (status, event_type and message
\* keys) and the exception it lets out
webhook_event_result(event_type, event_data) ==
    LET status == process_webhook_event(event_type, event_data) IN
    IF status = "error"
    THEN [status |-> "error", event_type |-> None,
          message |-> "'" \o TypeName(event_data) \o "' object has no attribute 'get'",
          raised |-> None]
    ELSE [status |-> status, event_type |-> event_type, message |-> None, raised |-> None]

\* a direct call of process_webhook_event
ProcessWebhookEvent ==
    /\ call.fn = "process_webhook_event"
    /\ ~call.done
    /\ call' = [call EXCEPT !.done = TRUE,
                            !.result = webhook_event_result(call.input.event_type,
                                                            call.input.event_data)]
    /\ UNCHANGED <<env_secret, paddle_service, users, request, response, calls, phase,
                   task, issues, accepted, search, render, synthesis, threads>>

----------------------------------------------------------------------------
(* Specifications *)

vars ==
    <<env_secret, paddle_service, users, request, response, calls, phase, task, issues,
      accepted, search, render, synthesis, call, threads>>

NoDelivery == [body |-> None, signature |-> None, again |-> FALSE]

\* an Issue row (models.Issue); sent_at is None until set
Issue(id, newsletter_id, subject, content, sent_at) ==
    [id |-> id, newsletter_id |-> newsletter_id, subject |-> subject,
     content |-> content, sent_at |-> sent_at]

InitExceptRender ==
    WebhookInit /\ task = NoTask /\ issues = {} /\ accepted = NoDelivery
        /\ search = NoSearch /\ synthesis = NoSynthesis /\ call = NoCall
        /\ threads = NoThreads

Init == InitExceptRender /\ render = NoRender

\* a renderer about to be called on some content
RenderInit ==
    /\ InitExceptRender
    /\ env_secret = None
    /\ \E subject \in Subjects : \E content \in Contents :
            render = [NoRender EXCEPT !.subject = subject, !.content = content]

\* a POST to /api/admin/synthesize about to be handled
SynthesizeInit ==
    /\ WebhookInit /\ env_secret = None
    /\ task = NoTask /\ issues = {} /\ accepted = NoDelivery
    /\ search = NoSearch /\ render = NoRender /\ call = NoCall
    /\ threads = NoThreads
    /\ \E data \in SynthesizeBodies : \E generation \in GenerateOnDemandOutcomes :
       \E delivered \in BOOLEAN :
            synthesis = [NoSynthesis EXCEPT !.data = data, !.generation = generation,
                                            !.delivered = delivered]

\* everything but the direct call at its initial value
InitExceptCall ==
    /\ WebhookInit /\ env_secret = None
    /\ task = NoTask /\ issues = {} /\ accepted = NoDelivery
    /\ search = NoSearch /\ render = NoRender /\ synthesis = NoSynthesis
    /\ threads = NoThreads

\* generate_newsletter_content about to be called
ContentInit ==
    /\ InitExceptCall
    /\ \E key \in OpenAiKeys : \E topic \in ContentTopics :
       \E completion \in Completions :
            call = [NoCall EXCEPT !.fn = "generate_newsletter_content", !.env = key,
                                  !.input = [topic |-> topic, kind |-> completion.kind,
                                             content |-> completion.content]]

\* from_dict about to be called on a new NewsletterConfig
ConfigInit ==
    /\ InitExceptCall
    /\ \E config_dict \in ConfigDicts :
            call = [NoCall EXCEPT !.fn = "from_dict", !.env = NewsletterConfig,
                                  !.input = config_dict]

\* the threads of one process each handling one delivery about one subscriber
ConcurrentWebhookInit ==
    /\ WebhookInit /\ env_secret = "whsec_A"
    /\ task = NoTask /\ issues = {} /\ accepted = NoDelivery
    /\ search = NoSearch /\ render = NoRender /\ synthesis = NoSynthesis
    /\ call = NoCall
    /\ threads \in [Threads -> {Handling(d) : d \in SubscriptionDeliveries}]

ConcurrentWebhookSpec == ConcurrentWebhookInit /\ [][ConcurrentPaddleWebhook]_vars

\* the threads of one process each handling the callback of one browser
CallbackInit ==
    /\ env_secret = None /\ paddle_service = NoService
    /\ request = NoRequest /\ response = NoResponse /\ calls = <<>> /\ phase = "idle"
    /\ task = NoTask /\ issues = {} /\ accepted = NoDelivery
    /\ search = NoSearch /\ render = NoRender /\ synthesis = NoSynthesis
    /\ call = NoCall
    /\ \E table \in UsersBefore :
          /\ users = table
          /\ threads \in [Threads -> {Arrived(userinfo, outcome, Len(table)) :
                                        userinfo \in Userinfos,
                                        outcome \in ProviderOutcomes}]

CallbackSpec == CallbackInit /\ [][Callback]_vars

\* process_webhook_event about to be called
WebhookEventInit ==
    /\ InitExceptCall
    /\ \E event_type \in EventTypes : \E event_data \in EventDatas :
            call = [NoCall EXCEPT !.fn = "process_webhook_event",
                                  !.input = [event_type |-> event_type,
                                             event_data |-> event_data]]

WebhookEventSpec == WebhookEventInit /\ [][ProcessWebhookEvent]_vars

PaymentWebhookNext ==
    \/ PaddleWebhook
    \/ VerifyWebhookSignature
    \/ Return

AuthWebhookNext ==
    \/ AuthPaddleWebhook
    \/ VerifyPaddleWebhook
    \/ Return

TaskNext ==
    \/ Delay
    \/ Execute
    \/ GenerateNewsletter
    \/ Return

\* /api/payment/webhook and PaddlePaymentService
PaymentWebhookSpec == Init /\ [][PaymentWebhookNext]_vars

\* /auth/paddle/webhook and services.verify_paddle_webhook
AuthWebhookSpec == Init /\ [][AuthWebhookNext]_vars

\* the Celery tasks and the generation route
TaskSpec == Init /\ [][TaskNext]_vars

SearchNext ==
    \/ SearchBrave
    \/ GetMockSearchResults

\* the search service
SearchSpec == Init /\ [][SearchNext]_vars

\* the renderer
RenderSpec == RenderInit /\ [][RenderHtml]_vars

\* the on-demand synthesis route
SynthesizeSpec == SynthesizeInit /\ [][SynthesizeNewsletter]_vars

SyncRouteNext ==
    \/ SynthesizeNewsletter
    \/ ClaudeGenerate
    \/ Return

\* the synchronous routes that call an upstream provider
SyncRouteSpec == SynthesizeInit /\ [][SyncRouteNext]_vars

\* the OpenAI content generation
ContentSpec == ContentInit /\ [][GenerateNewsletterContent]_vars

WorkerNext ==
    \/ Delay
    \/ Execute
    \/ WorkerLost

\* the tasks on workers that can be killed; a task that is waiting is
\* eventually executed to its end
FairWorkerSpec == Init /\ [][WorkerNext]_vars /\ WF_vars(Execute)

\* the newsletter configuration object
ConfigSpec == ConfigInit /\ [][FromDict]_vars

\* the threads of one process sharing the payment service singleton
SingletonSpec == Init /\ [][GetPaddleService]_vars

\* the worker keeps executing a task that is waiting
FairTaskSpec == TaskSpec /\ WF_vars(Execute)

----------------------------------------------------------------------------
(* Claims about the webhook endpoints and the verifiers *)

PaymentEndpoint == request.endpoint = "/api/payment/webhook"
AuthEndpoint == request.endpoint = "/auth/paddle/webhook"

\* the verifier returned False to the handler
VerificationFailed == Len(calls) >= 1 /\ calls[1].ret = "False"

ProcessCalls == {i \in 1..Len(calls) : calls[i].fn = "process_webhook_event"}

\* C1 as stated: POST /api/payment/webhook answers 400 when the
\* Paddle-Signature header is missing or empty, 401 when the verification
\* returns false, and 200 {status: "received", event_type} in every other case.
C1_OtherwiseAlways200 ==
    PaymentEndpoint =>
        IF Falsy(request.signature) THEN response.code = 400
        ELSE IF VerificationFailed THEN response.code = 401
        ELSE /\ response.code = 200
             /\ response.json.status = "received"

\* C1 amended: 400 when the Paddle-Signature header is missing or empty, 401
\* when the verification returns false; a verified request is answered 500
\* when its body cannot be read as a JSON object, 400 when its event_type is
\* missing or empty, and 200 {status: "received", event_type} otherwise.
C1_WebhookResponses ==
    PaymentEndpoint =>
        LET body == ParseJson(request.body) IN
        IF Falsy(request.signature)
        THEN response.code = 400 /\ response.json.error = "Missing signature"
        ELSE IF VerificationFailed
        THEN response.code = 401 /\ response.json.error = "Invalid signature"
        ELSE IF body.err /= ""
        THEN response.code = 500
        ELSE IF Falsy(body.event_type)
        THEN response.code = 400 /\ response.json.error = "Missing event_type"
        ELSE /\ response.code = 200
             /\ response.json.status = "received"
             /\ response.json.event_type = body.event_type
             /\ response.json.error = None

\* a verified request without event_type has been answered 400
C1_Witness ==
    /\ PaymentEndpoint
    /\ Len(calls) = 1 /\ calls[1].ret = "True"
    /\ response.code = 400
    /\ response.json.error = "Missing event_type"

\* C2: in POST /api/payment/webhook, process_webhook_event is invoked only
\* after verify_webhook_signature has returned true for this request's raw
\* body and Paddle-Signature header; a request answered 400 (missing
\* signature) or 401 (invalid signature) never reaches event processing.
C2_ProcessOnlyAfterVerified ==
    PaymentEndpoint =>
        /\ \A i \in ProcessCalls :
              /\ i > 1
              /\ calls[1] = Call("verify_webhook_signature", request.body,
                                 request.signature, "True")
              /\ request.signature =
                    HmacSha256Hex(paddle_service.webhook_secret, request.body)
        /\ response.json.error \in {"Missing signature", "Invalid signature"}
              => ProcessCalls = {}
        /\ response.code = 401 => ProcessCalls = {}

\* an event has been processed
C2_Witness == PaymentEndpoint /\ ProcessCalls /= {} /\ response.code = 200

\* the signature scheme of the verifier's tests (tests/test_auth.py): the
\* header is ts=<t>;h1=<hex> and h1 is the HMAC of "<t>.<body>"
SignatureVerifies(secret, body, header) ==
    /\ ~Falsy(secret)
    /\ header /= None
    /\ \E ts \in Timestamps :
          header = TsH1Header(ts, HmacSha256Hex(secret, SignedPayload(ts, body)))

\* the bare hex HMAC of the body (tests/test_payment.py)
BareSignatureVerifies(secret, body, header) ==
    /\ ~Falsy(secret)
    /\ header = HmacSha256Hex(secret, body)

\* headers of the form ts=<t>;h1=<hex>
TsH1Headers(body) ==
    {TsH1Header(ts, HmacSha256Hex(k, SignedPayload(t2, b))) :
        k \in Secrets, ts \in Timestamps, t2 \in Timestamps, b \in {body, Tamper(body)}}

VerifierCalls ==
    {i \in 1..Len(calls) :
        calls[i].fn \in {"verify_paddle_webhook", "verify_webhook_signature"}}

\* the request's Paddle-Signature verifies against its body under the
\* configured secret, in either signature format
Verified(req) ==
    \/ SignatureVerifies(env_secret, req.body, req.signature)
    \/ BareSignatureVerifies(env_secret, req.body, req.signature)

\* C3: POST /auth/paddle/webhook answers 403 and changes no User row whenever
\* the request's Paddle-Signature does not verify against the request body; a
\* User's subscription_id or is_active is changed only by a request whose
\* signature verified.
C3_UnverifiedIsRejected ==
    [][/\ (phase = "idle" /\ request'.endpoint = "/auth/paddle/webhook"
              /\ ~Verified(request'))
          => (response'.code = 403 /\ users' = users)
       /\ users' /= users
          => (request'.endpoint = "/auth/paddle/webhook" /\ Verified(request'))]_vars

\* C4: the webhook verifier returns a boolean and never raises for any
\* payload and signature input; it fails closed, returning false when the
\* shared secret is not configured, when the header is missing or malformed,
\* and when the digest does not match.
C4_FailsClosed ==
    \A i \in VerifierCalls :
        /\ calls[i].ret \in {"True", "False"}
        /\ (\/ Falsy(env_secret)
            \/ Falsy(calls[i].b)
            \/ /\ ~SignatureVerifies(env_secret, calls[i].a, calls[i].b)
               /\ ~BareSignatureVerifies(env_secret, calls[i].a, calls[i].b))
           => calls[i].ret = "False"

\* C5: given a header of the form ts=<t>;h1=<hex>, the verifier returns true
\* exactly when h1 equals HMAC-SHA256(secret, "<t>.<raw body>"): true for
\* every valid (timestamp, body, secret), false after a single-byte change to
\* the body, the header (ts or h1) or the secret.
C5_TrueExactlyWhenSigned ==
    \A i \in VerifierCalls :
        calls[i].b \in TsH1Headers(calls[i].a) =>
            (calls[i].ret = "True" <=> SignatureVerifies(env_secret, calls[i].a, calls[i].b))

----------------------------------------------------------------------------
(* Claims about the tasks and the generation route *)

AttemptFailed(a) == a.gen \in {"raise", "None"} \/ a.email \in {"raise", "False"}

Attempts == Len(task.outcomes)

LastAttempt == task.outcomes[Attempts]

Finished == task.state \in {"SUCCESS", "FAILURE"}

\* C6: when a generation or email task still fails after its last permitted
\* retry, the task returns a structured error dict (generation: {error};
\* email: {success: false, error, to_email}) instead of raising, so the
\* task's final result is always JSON-serializable.
C6_StructuredErrorAfterLastRetry ==
    (/\ task.kind \in {"generate_newsletter_async", "send_email_async"}
     /\ Finished
     /\ Attempts = max_retries(task.kind) + 1
     /\ AttemptFailed(LastAttempt))
    => /\ task.raised = None
       /\ task.result.error /= None
       /\ task.kind = "send_email_async"
             => task.result.success = "False" /\ task.result.to_email /= None

\* the result of the underlying call, as the task returns it
UnderlyingResult ==
    CASE task.kind = "generate_newsletter_async" -> task.result.content /= None
      [] task.kind = "send_email_async" -> task.result.success = "True"
      [] OTHER -> task.result.success = "True"

\* C7: each task run follows PENDING -> retries -> SUCCESS | FAILURE and
\* terminates: it is executed again only after a failed attempt, it finishes
\* with the underlying call's result at the first successful attempt, and it
\* is retried at most 3 times (generation) or 5 times (email) before it
\* finishes as failed.
C7_RetryStateMachine ==
    /\ [](task.state /= "NONE" =>
            /\ task.state \in {"PENDING", "RETRY", "SUCCESS", "FAILURE"}
            /\ task.retries = Len(task.delays)
            /\ task.kind = "generate_newsletter_async" => task.retries <= 3
            /\ task.kind = "send_email_async" => task.retries <= 5
            /\ Attempts <= task.retries + 1
            /\ \A i \in 1..(Attempts - 1) : AttemptFailed(task.outcomes[i])
            /\ task.state = "PENDING" => Attempts = 0
            /\ task.state = "RETRY" => AttemptFailed(LastAttempt) /\ Attempts = task.retries
            /\ task.state = "SUCCESS" => ~AttemptFailed(LastAttempt) /\ UnderlyingResult
            /\ task.state = "FAILURE" => AttemptFailed(LastAttempt))
    /\ [][Finished => task' = task]_vars
    /\ (task.state = "PENDING" ~> Finished)

\* raise, raise, succeed: the generation task returned the content
C7_Witness ==
    /\ task.kind = "generate_newsletter_async"
    /\ task.state = "SUCCESS"
    /\ Attempts = 3
    /\ task.outcomes[1].gen = "raise" /\ task.outcomes[2].gen = "raise"
    /\ task.result.content /= None

\* C8 as stated: every retrying task uses exponential backoff, so the
\* successive retry delays of one task strictly double.
C8_EveryTaskDoubles ==
    \A i \in 1..(Len(task.delays) - 1) : task.delays[i + 1] = 2 * task.delays[i]

\* C8 amended: the generation and the email task use exponential backoff, the
\* delay before a retry being base * 2^retry_count with base 60 s for
\* generation and 30 s for email, so their successive delays strictly
\* double; the combined generate-and-send task retries after a fixed 120 s.
C8_BackoffDelays ==
    \A i \in 1..Len(task.delays) :
        /\ task.kind = "generate_newsletter_async" => task.delays[i] = 60 * (2 ^ (i - 1))
        /\ task.kind = "send_email_async" => task.delays[i] = 30 * (2 ^ (i - 1))
        /\ task.kind = "send_newsletter_issue" => task.delays[i] = 120
        /\ (task.kind /= "send_newsletter_issue" /\ i > 1)
              => task.delays[i] = 2 * task.delays[i - 1]

\* the email task has scheduled its fifth retry, 480 s ahead
C8_Witness ==
    /\ task.kind = "send_email_async"
    /\ Len(task.delays) = 5
    /\ task.delays[5] = 480

IssueTask == task.kind = "send_newsletter_issue" /\ Attempts >= 1

C10_GenerateEnqueuesTask ==
    (request.endpoint = "/api/generate" /\ request.body = "Artificial Intelligence")
    => /\ response.code = 202
       /\ response.json.status = "processing"
       /\ response.json.task_id /= None
       /\ task.kind = "generate_newsletter_async"
       /\ task.id = response.json.task_id

\* C11: for every topic that is missing, shorter than 3 characters after
\* trimming, longer than 500 characters, or containing '<script', POST
\* /api/generate returns 400 with success=false and starts no generation.
C11_InvalidTopicRejected ==
    (request.endpoint = "/api/generate" /\ ~validate_topic(request.body).is_valid)
    => /\ response.code = 400
       /\ response.json.success = "False"
       /\ task = NoTask

\* C12: in every reachable state an Issue's sent_at is non-null only if the
\* email provider reported a successful send for that issue; when the send
\* fails (or no send is made) the Issue generated by POST /api/generate is
\* still persisted and its sent_at stays null.
C12_SentAtOnlyAfterSend ==
    LET sent == \E c \in 1..Len(calls) :
                    calls[c].fn = "send_email" /\ calls[c].ret = "True"
    IN  /\ \A i \in issues : i.sent_at /= None => sent
        /\ (request.endpoint = "/api/generate" /\ response.code \in {201, 202})
              => \E i \in issues : i.content /= None /\ (~sent => i.sent_at = None)

\* a webhook request carrying the event, on either webhook endpoint
IsWebhookEvent(req, event_type) ==
    /\ req.endpoint \in {"/api/payment/webhook", "/auth/paddle/webhook"}
    /\ ParseJson(req.body).err = ""
    /\ ParseJson(req.body).event_type = event_type
    /\ ParseJson(req.body).data.kind = "dict"

Holders(id) == {u \in UserIds : users[u].subscription_id = id}

\* an accepted webhook carrying the cancellation event deactivates one holder
\* of the subscription and touches nothing else
CancellationEffect(event_type) ==
    (phase = "idle" /\ IsWebhookEvent(request', event_type)
        /\ response'.code = 200
        /\ ParseJson(request'.body).data.id /= None)
    => LET id == ParseJson(request'.body).data.id IN
       IF Holders(id) = {} THEN users' = users
       ELSE \E u \in Holders(id) : users' = [users EXCEPT ![u].is_active = FALSE]

\* C13: a subscription.cancelled webhook for an existing subscription_id sets
\* is_active to false for the user holding that subscription_id and leaves
\* every other User row unchanged; the same event for an unknown
\* subscription_id mutates no row.
C13_CancelledDeactivatesHolder ==
    [][CancellationEffect("subscription.cancelled")]_vars

\* the subscription.created / subscription.updated events /auth/paddle/webhook
\* processes: the ones carrying id, status and customer email
IsSubscriptionEvent(req) ==
    /\ req.endpoint = "/auth/paddle/webhook"
    /\ \/ IsWebhookEvent(req, "subscription.created")
       \/ IsWebhookEvent(req, "subscription.updated")
    /\ ~Falsy(ParseJson(req.body).data.email)
    /\ ~Falsy(ParseJson(req.body).data.id)
    /\ ~Falsy(ParseJson(req.body).data.status)

\* C14: a subscription.created or subscription.updated webhook whose customer
\* email matches no User creates no User and changes no row, and is still
\* answered 200; when the email matches, only that user is changed:
\* subscription_id is set to the event's id and is_active becomes true if and
\* only if the event's status is 'active'.
C14_SubscriptionEventEffect ==
    [][(phase = "idle" /\ IsSubscriptionEvent(request'))
       => LET data == ParseJson(request'.body).data
              matching == {u \in UserIds : users[u].email = data.email}
          IN  /\ response'.code = 200
              /\ DOMAIN users' = DOMAIN users
              /\ matching = {} => users' = users
              /\ \A u \in matching :
                    users' = [users EXCEPT ![u].subscription_id = data.id,
                                           ![u].is_active = (data.status = "active")]]_vars

\* a past_due update for a@x.io has been applied: the user holds the event's
\* subscription and is inactive, the other user is as created
C14_Witness ==
    /\ IsSubscriptionEvent(request)
    /\ ParseJson(request.body).data.email = "a@x.io"
    /\ ParseJson(request.body).data.status = "past_due"
    /\ response.code = 200
    /\ users[1].subscription_id = ParseJson(request.body).data.id
    /\ ~users[1].is_active
    /\ users[2] = [email |-> "b@x.io", subscription_id |-> "sub_2", is_active |-> TRUE]

\* C15: process_webhook_event dispatches on a fixed mapping of six event types
\* (transaction.completed, transaction.updated, subscription.created,
\* subscription.updated, subscription.cancelled, subscription.past_due); every
\* other event type returns {status: "unhandled"} without error, and the
\* webhook endpoint answers 200 whether or not the event type is recognised.
C15_DispatchAndUnhandled ==
    PaymentEndpoint =>
        \A i \in ProcessCalls :
            /\ IF calls[i].a \in {"transaction.completed", "transaction.updated",
                                  "subscription.created", "subscription.updated",
                                  "subscription.cancelled", "subscription.past_due"}
               THEN /\ calls[i].ret \in {"success", "error"}
                    /\ calls[i].b = "dict" => calls[i].ret = "success"
               ELSE calls[i].ret = "unhandled"
            /\ response.code = 200
            /\ response.json.status = "received"
            /\ response.json.event_type = calls[i].a

\* an event of a type outside the mapping was processed and answered 200
C15_Witness ==
    /\ PaymentEndpoint
    /\ \E i \in ProcessCalls : calls[i].a = "invoice.paid" /\ calls[i].ret = "unhandled"
    /\ response.code = 200

\* C16: no timestamp-freshness or duplicate-delivery check exists on the
\* webhook path: delivering the same validly signed payload and signature
\* again, any number of times after it was accepted, is accepted with 200 and
\* processed again on every delivery.
C16_ReplayAccepted ==
    [][(/\ phase = "idle"
        /\ request'.endpoint = "/api/payment/webhook"
        /\ accepted.body = request'.body
        /\ accepted.signature = request'.signature)
       => /\ response'.code = 200
          /\ response'.json.status = "received"
          /\ \E i \in 1..Len(calls') :
                /\ calls'[i].fn = "process_webhook_event"
                /\ calls'[i].a = ParseJson(request'.body).event_type
          /\ accepted'.again]_vars

\* a repeated delivery has been answered 200 and processed
C16_Witness ==
    /\ PaymentEndpoint
    /\ accepted.again
    /\ accepted.body = request.body /\ accepted.signature = request.signature
    /\ response.code = 200
    /\ ProcessCalls /= {}

\* the last call was search_brave and it could not get results from the
\* API: no key, a timeout, another exception, or a status other than 200
SearchFailed ==
    /\ search.fn = "search_brave"
    /\ \/ Falsy(search.brave_api_key)
       \/ search.api.kind # "response"
       \/ search.api.status_code # 200
       \/ ~search.api.json_ok

\* C17: search_brave never raises; on a missing key, a non-200 answer, a
\* timeout or any other exception it returns the mock results (source
\* "mock", success true) when fallback_to_mock, and otherwise a result
\* with success false, no results and an error string
C17_FailureFallsBackOrReportsError ==
    /\ search.fn = "search_brave" => search.result.raised = None
    /\ SearchFailed =>
        IF search.fallback_to_mock
        THEN /\ search.result.success = TRUE
             /\ search.result.source = "mock"
             /\ search.result = get_mock_search_results(search.query, search.count)
        ELSE /\ search.result.success = FALSE
             /\ search.result.results = <<>>
             /\ search.result.total_results = 0
             /\ search.result.error # None
             /\ Len(search.result.error) > 0

C17_Witness ==
    /\ SearchFailed
    /\ ~Falsy(search.brave_api_key)
    /\ search.api.kind = "timeout"
    /\ search.fallback_to_mock
    /\ search.count = 3
    /\ search.result.source = "mock"
    /\ Len(search.result.results) = 3

\* the last call produced the mock results without asking the API:
\* search_brave with no API key and fallback_to_mock, or
\* _get_mock_search_results itself
MockSearch ==
    \/ /\ search.fn = "search_brave"
       /\ Falsy(search.brave_api_key)
       /\ search.fallback_to_mock
    \/ search.fn = "_get_mock_search_results"

\* C18: with the API key absent and fallback enabled the search returns
\* exactly min(count, 5) mock results tagged source "mock", each with the
\* query text in its title: exactly 3 for count 3, at most 5 for count 100
\* (a count is a number of results to return, so not negative)
C18_MockResultsCapped ==
    MockSearch /\ search.count >= 0 =>
        /\ search.result.success = TRUE
        /\ search.result.source = "mock"
        /\ Len(search.result.results) = Min(search.count, 5)
        /\ search.result.total_results = Len(search.result.results)
        /\ \A i \in 1..Len(search.result.results) :
                Contains(search.result.results[i].title, search.query)
        /\ search.count = 3 => Len(search.result.results) = 3
        /\ search.count = 100 => Len(search.result.results) <= 5

C18_Witness ==
    /\ search.fn = "search_brave"
    /\ search.brave_api_key = None
    /\ search.fallback_to_mock
    /\ search.query = "test query"
    /\ search.count = 100
    /\ Len(search.result.results) = 5
    /\ search.result.results[5].title = "Mock Result 5 for \"test query\""

\* the text of a line or block with its bold marks converted
Inline(text) == SubStrong(SubStrong(text, "**"), "__")

IsHeaderLine(line) ==
    StartsWith(line, "# ") \/ StartsWith(line, "## ") \/ StartsWith(line, "### ")

\* the blank-line-separated blocks of a text given as its lines: each
\* maximal run of non-empty lines, as the pair of its first and last line
\* numbers
Blocks(lines) ==
    {b \in (1..Len(lines)) \X (1..Len(lines)) :
        /\ b[1] <= b[2]
        /\ \A k \in b[1]..b[2] : lines[k] # ""
        /\ b[1] = 1 \/ lines[b[1] - 1] = ""
        /\ b[2] = Len(lines) \/ lines[b[2] + 1] = ""}

\* a block of ordinary text: no header line in it, and not only spaces
OrdinaryBlocks(lines) ==
    {b \in Blocks(lines) :
        /\ \A k \in b[1]..b[2] : ~IsHeaderLine(lines[k])
        /\ \E k \in b[1]..b[2] : Strip(lines[k]) # ""}

BlockText(lines, b) == Strip(Inline(Join(SubSeq(lines, b[1], b[2]), "\n")))

\* C19: render_html turns every line prefixed "# ", "## " or "### " into an
\* <h1>, <h2> or <h3> element and every blank-line-separated block of
\* ordinary text into one <p>...</p> paragraph, and its output holds the
\* subject; "# H\n\nP" yields <h1>H</h1> and <p>P</p>
C19_MarkdownSubsetRendered ==
    render.output # None =>
        LET lines == Split(render.content, "\n") IN
        /\ \A k \in 1..Len(lines) :
            /\ StartsWith(lines[k], "# ") =>
                Contains(render.html_content,
                         "<h1>" \o Inline(SubSeq(lines[k], 3, Len(lines[k]))) \o "</h1>")
            /\ StartsWith(lines[k], "## ") =>
                Contains(render.html_content,
                         "<h2>" \o Inline(SubSeq(lines[k], 4, Len(lines[k]))) \o "</h2>")
            /\ StartsWith(lines[k], "### ") =>
                Contains(render.html_content,
                         "<h3>" \o Inline(SubSeq(lines[k], 5, Len(lines[k]))) \o "</h3>")
        /\ \A b \in OrdinaryBlocks(lines) :
                Contains(render.html_content, "<p>" \o BlockText(lines, b) \o "</p>")
        /\ Contains(render.output, render.html_content)
        /\ Contains(render.output, "<title>" \o render.subject \o "</title>")
        /\ render.content = "# H\n\nP" =>
            /\ Contains(render.output, "<h1>H</h1>")
            /\ Contains(render.output, "<p>P</p>")
            /\ render.html_content = "<h1>H</h1>\n<p>P</p>"

C19_Witness ==
    /\ render.subject = "HTML Newsletter"
    /\ render.content = "## Sub\n\nP\nis **bold** text"
    /\ render.html_content = "<h2>Sub</h2>\n<p>P\nis <strong>bold</strong> text</p>"
    /\ Contains(render.output, "<h1>HTML Newsletter</h1>")

\* the request is one the claim says is rejected: no body, no newsletter_id,
\* no topic, or send_email true without email_to
SynthesizeInvalid ==
    \/ synthesis.data.kind # "object"
    \/ synthesis.data.newsletter_id \in {None, "0"}
    \/ Falsy(synthesis.data.topic)
    \/ synthesis.data.send_email = "true" /\ Falsy(synthesis.data.email_to)

SynthesisGenerationFailed ==
    /\ synthesis.calls # <<>>
    /\ synthesis.generation.kind # "ok"

\* /api/admin/synthesize was handled and its send_email call returned false
SynthesisEmailFailed ==
    /\ \E i \in 1..Len(synthesis.calls) : synthesis.calls[i] = "send_email"
    /\ ~synthesis.delivered

\* /api/claude/generate was handled and generate_text returned None
ClaudeFailed ==
    /\ phase = "done"
    /\ request.endpoint = "/api/claude/generate"
    /\ \E i \in 1..Len(calls) : calls[i].fn = "generate_text" /\ calls[i].ret = None

\* no provider function was called more than once by a request
CalledAtMostOnce ==
    /\ \A i, j \in 1..Len(synthesis.calls) :
            synthesis.calls[i] = synthesis.calls[j] => i = j
    /\ Len(calls) <= 1

\* C21 as stated: in a synchronous route every upstream-provider failure
\* (an LLM or email call returning null or false) is not retried and gives
\* a 500 response
C21_ProviderFailureIs500 ==
    /\ CalledAtMostOnce
    /\ SynthesisGenerationFailed => synthesis.response.code = 500
    /\ SynthesisEmailFailed => synthesis.response.code = 500
    /\ ClaudeFailed => response.code = 500

\* C21 amended: no provider call is retried; a failed generation gives 500
\* at once, while a send_email that returns false in /api/admin/synthesize
\* is reported as email_sent false in a 200 response
C21_GenerationFailureIs500 ==
    /\ CalledAtMostOnce
    /\ SynthesisGenerationFailed =>
        /\ synthesis.response.code = 500
        /\ synthesis.calls = <<"generate_on_demand">>
    /\ SynthesisEmailFailed =>
        /\ synthesis.response.code = 200
        /\ synthesis.response.email_sent = FALSE
    /\ ClaudeFailed =>
        /\ response.code = 500
        /\ response.json.error # None
        /\ Len(calls) = 1

C21_Witness ==
    /\ ClaudeFailed
    /\ response.code = 500
    /\ SynthesisEmailFailed
    /\ synthesis.response.code = 200

\* generate_newsletter_content has run with a key and a provider that
\* answered with some text
ContentGenerated ==
    /\ call.fn = "generate_newsletter_content"
    /\ call.done
    /\ ~Falsy(call.env)
    /\ call.input.kind = "response"
    /\ call.input.content # None

\* generate_newsletter_content has run without a key or with a provider
\* that raised
ContentUnavailable ==
    /\ call.fn = "generate_newsletter_content"
    /\ call.done
    /\ Falsy(call.env) \/ call.input.kind # "response"

\* text is cut at its first newline into subject and content
CutAtFirstNewline(text, subject, content) ==
    /\ ~Contains(subject, "\n")
    /\ IF Contains(text, "\n") THEN text = subject \o "\n" \o content
       ELSE subject = text /\ content = ""

Queued == task.state \in {"PENDING", "RETRY"}

\* C23: a queued task leaves the queue only by an execution that ran to
\* its end; a task whose worker is lost before it finished is queued again
\* as it was and executed again, so every enqueued task eventually reaches
\* SUCCESS or FAILURE
C23_LostTaskIsRequeued ==
    /\ [][Queued /\ task'.lost > task.lost =>
            /\ task'.state = task.state
            /\ task'.retries = task.retries
            /\ task'.outcomes = task.outcomes
            /\ task'.raised = None]_vars
    /\ [][Queued /\ task' # task /\ task'.lost = task.lost =>
            Len(task'.outcomes) = Len(task.outcomes) + 1]_vars
    /\ [][Queued => task'.state \in {"PENDING", "RETRY", "SUCCESS", "FAILURE"}]_vars
    /\ (Queued ~> Finished)

C23_Witness ==
    /\ task.lost = MaxWorkerLost
    /\ task.state = "SUCCESS"
    /\ task.retries = 1
    /\ Len(task.outcomes) = 2

\* C24: from_dict changes nothing but the six configuration fields: every
\* other attribute of the object, its methods among them, is after the call
\* what it was before, and no attribute is added
C24_OnlyConfigFieldsChange ==
    call.fn = "from_dict" /\ call.done =>
        /\ DOMAIN call.result = DOMAIN call.env
        /\ \A attr \in DOMAIN call.env \ ConfigFields : call.result[attr] = call.env[attr]

\* C25: get_paddle_service returns the same instance on every call and at
\* most one PaddlePaymentService is ever constructed in the process, also
\* when first calls run concurrently
C25_OneInstance ==
    /\ paddle_service.instance <= 1
    /\ \A t \in Threads : threads[t].got \in {0, 1}

\* the users table before any delivery
UsersAtStart ==
    [u \in UserIds |->
        IF u = 1
        THEN [email |-> "a@x.io", subscription_id |-> None, is_active |-> TRUE]
        ELSE [email |-> "b@x.io", subscription_id |-> "sub_2", is_active |-> TRUE]]

\* the tables a delivery handled alone, from query to commit, may leave
ProcessedAlone(table, d) ==
    LET matching == {u \in UserIds :
                        IF d.event_type = "subscription.canceled"
                        THEN table[u].subscription_id = d.id
                        ELSE table[u].email = d.email}
    IN IF matching = {} THEN {table}
       ELSE {[table EXCEPT ![u] = [table[u] EXCEPT
                 !.subscription_id = IF d.event_type = "subscription.canceled"
                                     THEN @ ELSE d.id,
                 !.is_active = IF d.event_type = "subscription.canceled"
                               THEN FALSE ELSE d.status = "active"]] : u \in matching}

\* the tables left by the deliveries of the threads in S handled one at a time
\* in some order, starting from table
RECURSIVE SerialResults(_, _)
SerialResults(S, table) ==
    IF S = {} THEN {table}
    ELSE UNION {UNION {SerialResults(S \ {t}, after) :
                          after \in ProcessedAlone(table, threads[t].delivery)} : t \in S}

AllDelivered == \A t \in Threads : threads[t].pc = "done"
SomeOverlapped == \E t \in Threads : threads[t].overlapped

\* C26 as stated: once every concurrently handled delivery has been
\* processed, the users table is the one left by handling the same deliveries
\* one at a time in some order
C26_Serializable ==
    AllDelivered => users \in SerialResults(Threads, UsersAtStart)

\* C26: deliveries whose handlers did not overlap leave the table of a serial
\* order, and after any interleaving each column of a row holds its initial
\* value or a value one of the deliveries assigns
C26_SerialWhenNotOverlapped ==
    AllDelivered =>
        /\ ~SomeOverlapped => users \in SerialResults(Threads, UsersAtStart)
        /\ \A u \in UserIds :
              /\ users[u].email = UsersAtStart[u].email
              /\ users[u].subscription_id \in
                    {UsersAtStart[u].subscription_id} \cup
                    {threads[t].delivery.id :
                        t \in {x \in Threads :
                                 threads[x].delivery.event_type /= "subscription.canceled"}}
              /\ users[u].is_active \in
                    {UsersAtStart[u].is_active} \cup
                    {threads[t].delivery.status = "active" :
                        t \in {x \in Threads :
                                 threads[x].delivery.event_type /= "subscription.canceled"}}
                    \cup {FALSE}

\* a cancellation of sub_2 and an update to sub_9 have overlapped and left
\* the subscriber on sub_9 and inactive
C26_Witness ==
    /\ AllDelivered /\ SomeOverlapped
    /\ \E t \in Threads : threads[t].delivery.event_type = "subscription.canceled"
    /\ \E t \in Threads : threads[t].delivery =
            [event_type |-> "subscription.updated", email |-> "b@x.io", id |-> "sub_9",
             status |-> "active"]
    /\ users[2].subscription_id = "sub_9" /\ ~users[2].is_active


\* the rows of the identity auth0|1 / n@x.io
IdentityRows ==
    {i \in DOMAIN users : users[i].auth0_id = "auth0|1" /\ users[i].email = "n@x.io"}

\* a callback of that identity that the provider has answered, now finished
Legitimate(t) ==
    /\ threads[t].pc = "done"
    /\ threads[t].userinfo = [sub |-> "auth0|1", email |-> "n@x.io"]
    /\ threads[t].outcome = "ok"

\* C27: the identity never has two rows, and every finished callback the
\* provider answered for it has logged in the one row of the identity, without
\* an insert when the row existed before
C27_OneRowAndLoginPerIdentity ==
    /\ Cardinality(IdentityRows) <= 1
    /\ \A t \in Threads :
          Legitimate(t) =>
              /\ IdentityRows = {threads[t].session.user_id}
              /\ threads[t].response = "/dashboard"
              /\ threads[t].rows_before = 2 => Len(users) = 2


WebhookEventProcessed == call.fn = "process_webhook_event" /\ call.done

\* C28: process_webhook_event never raises: for every event type and every
\* data value, null and non-dict values included, it returns a dict whose
\* status is success, unhandled or error; a handler's exception is reported as
\* status error with the exception's message
C28_ProcessWebhookEventNeverRaises ==
    WebhookEventProcessed =>
        LET handled == call.input.event_type \in PaymentEventTypes
            is_dict == call.input.event_data.kind = "dict"
        IN
        /\ call.result.raised = None
        /\ call.result.status \in {"success", "unhandled", "error"}
        /\ call.result.status = "error" <=> (handled /\ ~is_dict)
        /\ call.result.status = "error" <=> call.result.message /= None
        /\ call.result.status = "unhandled" <=> ~handled
        /\ call.result.status /= "error" => call.result.event_type = call.input.event_type

\* a handled event with a list as data has been reported as an error
C28_Witness ==
    /\ WebhookEventProcessed
    /\ call.input.event_type = "subscription.created"
    /\ call.input.event_data.kind = "list"
    /\ call.result.status = "error"
    /\ call.result.message = "'list' object has no attribute 'get'"


SearchReturned == search.fn /= None

\* C29: in every result of search_brave and of the mock generator, for any
\* integer count, total_results is the length of results and not negative
C29_TotalResultsIsLength ==
    SearchReturned =>
        /\ search.result.total_results = Len(search.result.results)
        /\ search.result.total_results >= 0

\* the callback of thread t has failed
CallbackFailed(t) ==
    threads[t].pc = "done" /\ threads[t].response = "/?error=auth_failed"

\* C30: a callback that fails at the token exchange, the userinfo fetch or the
\* user lookup or creation leaves the session as it was before the callback:
\* nobody logged in and no jwt_payload of the failed attempt stored
C30_FailedCallbackLeavesSession ==
    \A t \in Threads :
        CallbackFailed(t) =>
            /\ threads[t].session.user_id = 0
            /\ threads[t].session.jwt_payload = NoUserinfo
            /\ threads[t].session = NoSession

====
